---- MODULE Spec2Model ----
(***************************************************************************)
(* Transaction window loader of the family finance tracker (FinanceTracker *)
(* component): the in-memory allTransactions list, kept in step with the   *)
(* remote "transactions" collection by a live listener over the newest     *)
(* documents and by paginated fetches (initial window, one more month,     *)
(* everything).                                                            *)
(*                                                                         *)
(* A month "YYYY-MM" is the number YYYYMM: the code compares the strings   *)
(* with < and >=, which for four-digit years is the order of the numbers.  *)
(* transactionDate is kept at month granularity: every use the loader      *)
(* makes of it goes through getYearMonthLocal.  The documents of the       *)
(* collection hold 'YYYY-MM-DD' strings, and in the time zone the code is  *)
(* written for (its comment at getYearMonthLocal: Hungary, east of UTC)    *)
(* dateToLocalISO gives such a string back unchanged.                      *)
(*                                                                         *)
(* Around the loader stand the rate cache (manageRateCache, run once by    *)
(* every mounted FinanceTracker), the handlers that write transactions     *)
(* (addTransaction, updateTransaction, handlePostRecurring, handleImport,  *)
(* handleConfirmDelete), the category usage counters, and the derived data *)
(* of the reports page (filteredTransactions, reportData, the listed       *)
(* amount).  db is taken as set: the effect that sets it runs at mount.    *)
(* A JavaScript number is an exact fraction here; rounding is left out.    *)
(***************************************************************************)
EXTENDS Integers, Sequences, FiniteSets, TLC

\* ---------------------------------------------------------------- bounds
\* Page size of the paginated fetches; 25 in the source, scaled down.
TRANSACTIONS_PER_PAGE == 2
\* limit(...) of the live query; 500 in the source, scaled down.
LIVE_LIMIT == 3
\* Document ids available to the remote collection.
MaxDocs == 4
\* Documents the collection starts with when writes follow.
SeedDocs == 3
\* Calendar months a document may be dated in, counted back from NowYM.
NumMonths == 4
\* Remote writes (add, edit, delete) in one behaviour.
MaxWrites == 2
\* The month the clock shows (new Date()), as YYYYMM.
NowYM == 202402
\* Calendar days (UTC) the clock runs through in one behaviour.
MaxDays == 2
\* Mounts of FinanceTracker (sign-in after sign-out) in one behaviour.
MaxMounts == 3

VARIABLES
    remote,           \* the remote collection: a set of documents
    usedIds,          \* ids the remote store has ever assigned
    page,             \* useState 'page'
    allTransactions,  \* useState allTransactions
    lastTxnDoc,       \* useState lastTxnDoc (pagination cursor)
    hasMoreTxns,      \* useState hasMoreTxns
    loadingTxns,      \* useState loadingTxns
    fetch,            \* the fetch call in flight, with its local variables
    snapPending,      \* the live listener has a snapshot to deliver
    writes,           \* number of remote writes so far
    ev,               \* history: the last step taken and what it applied
    lastSnap,         \* history: in-window records of the last snapshot delivered
    backfilled,       \* history: records appended by fetchMore / fetchAll
    usedAll,          \* history: fetchAllTransactions was started
    exchangeRatesCache, \* localStorage item 'exchangeRatesCache'
    latestRates,      \* useState latestRates
    today,            \* the calendar day (UTC) the clock shows
    instance,         \* the mounted FinanceTracker, numbered by mount
    rateCalls,        \* manageRateCache calls waiting for the rate service
    rateLog,          \* history: answers of the rate service that succeeded
    toast,            \* useState toast: the last notice raised
    categoryUsage,    \* useState categoryUsage
    recurring,        \* the remote collection of recurring items
    recurringItems,   \* useState recurringItems
    recSnapPending,   \* the recurring listener has a snapshot to deliver
    editingTransaction, \* useState editingTransaction
    displayCurrency,  \* useState displayCurrency
    selectedMonths,   \* useState selectedMonths
    selectedCategories, \* useState selectedCategories
    descriptionFilter, \* useState descriptionFilter
    sortConfig,       \* useState sortConfig
    currentPage       \* useState currentPage

loaderVars == <<remote, usedIds, page, allTransactions, lastTxnDoc, hasMoreTxns,
                loadingTxns, fetch, snapPending, writes, ev, lastSnap, backfilled, usedAll>>

rateVars == <<exchangeRatesCache, latestRates, today, instance, rateCalls, rateLog>>

ledgerVars == <<categoryUsage, recurring, recurringItems, recSnapPending,
                editingTransaction>>

reportVars == <<displayCurrency, selectedMonths, selectedCategories,
                descriptionFilter, sortConfig, currentPage>>

vars == <<loaderVars, rateVars, toast, ledgerVars, reportVars>>

\* ------------------------------------------------------------ month math
\* Variant of prevYearMonth that forgets the year: the month before a
\* January is month 00 of the same year.
PrevMonthNoRollover(ym) == ym - 1

\* prevYearMonth: new Date(ym + '-01T00:00:00'), setMonth(getMonth() - 1),
\* formatted back as YYYY-MM; setMonth(-1) on a January gives December of
\* the year before.
prevYearMonth(ym) ==
    LET y == ym \div 100
        m == ym % 100
    IN  IF m - 1 < 1 THEN (y - 1) * 100 + 12 ELSE y * 100 + (m - 1)

\* currentAndPreviousYM().prev, and the same computation inlined in the
\* listener effect.
PrevYM == prevYearMonth(NowYM)

RECURSIVE MonthsBack(_, _)
MonthsBack(ym, n) == IF n = 0 THEN {} ELSE {ym} \cup MonthsBack(prevYearMonth(ym), n - 1)

Months == MonthsBack(NowYM, NumMonths)

\* ------------------------------------------------------------- documents
Doc(i, ym, v) == [id |-> i, ym |-> ym, v |-> v]
NoDoc == Doc(0, 0, 0)
Ids == 1..MaxDocs

getYearMonthLocal(t) == t.ym

Range(s) == {s[i] : i \in 1..Len(s)}
IdsOf(S) == {d.id : d \in S}
Min(a, b) == IF a < b THEN a ELSE b

\* orderBy('transactionDate', 'desc'), ties by document id in the same
\* direction.
Before(a, b) == a.ym > b.ym \/ (a.ym = b.ym /\ a.id > b.id)

RECURSIVE Ordered(_)
Ordered(S) ==
    IF S = {} THEN <<>>
    ELSE LET first == CHOOSE x \in S : \A y \in S \ {x} : Before(x, y)
         IN  <<first>> \o Ordered(S \ {first})

\* getDocs(query(ref, orderBy(...), startAfter(cursor), limit(n))): the
\* cursor is a document snapshot, positioned by the values it was read with.
Query(S, cursor, n) ==
    LET after == {d \in S : cursor = NoDoc \/ Before(cursor, d)}
        all == Ordered(after)
    IN  SubSeq(all, 1, Min(n, Len(all)))

Last(s) == s[Len(s)]

\* ------------------------------------------------- the code's pure pieces
\* Listener: .filter(x => getYearMonthLocal(x.transactionDate) >= prev)
LiveOf(S) ==
    LET InWin(x) == getYearMonthLocal(x) >= PrevYM
    IN  SelectSeq(Query(S, NoDoc, LIVE_LIMIT), InWin)

\* Variant of the merge that drops what was held, as a listener over the
\* whole collection would: setAllTransactions(data).
MergeReplaceAll(prevState, live) == live

\* Listener: setAllTransactions(prevState => [...live, ...older]), older
\* being the held records of months before prev.
MergeLive(prevState, live) ==
    LET IsOlder(t) == getYearMonthLocal(t) < PrevYM
    IN  live \o SelectSeq(prevState, IsOlder)

\* fetchMoreTransactions / fetchAllTransactions:
\* setAllTransactions(prev => [...prev, ...append])
AppendBackfill(prevState, append) == prevState \o append

\* Variant of the initial filter that keeps the current month only.
KeptInitialStrict(mapped) ==
    LET Keep(x) == getYearMonthLocal(x) > PrevYM
    IN  SelectSeq(mapped, Keep)

\* fetchInitialTransactions: kept = mapped.filter(month >= prev)
KeptInitial(mapped) ==
    LET Keep(x) == getYearMonthLocal(x) >= PrevYM
    IN  SelectSeq(mapped, Keep)

\* Variant of the boundary test that never sees the boundary.
CrossedNever(mapped) == FALSE

\* fetchInitialTransactions: lastMapped && month(lastMapped) < prev

CrossedBoundary(mapped) ==
    Len(mapped) > 0 /\ getYearMonthLocal(Last(mapped)) < PrevYM

\* fetchMoreTransactions: oldestLoadedMonth, the reduce over allTransactions
OldestLoadedMonth(txns) ==
    IF Len(txns) = 0 THEN 0
    ELSE CHOOSE m \in {getYearMonthLocal(t) : t \in Range(txns)} :
            \A t \in Range(txns) : m <= getYearMonthLocal(t)

\* Variant of the one-month filter that also keeps older months.
KeptMoreOrOlder(mapped, targetMonth) ==
    LET Keep(x) == getYearMonthLocal(x) <= targetMonth
    IN  SelectSeq(mapped, Keep)

\* fetchMoreTransactions: kept = mapped.filter(month === targetMonth)
KeptMore(mapped, targetMonth) ==
    LET Keep(x) == getYearMonthLocal(x) = targetMonth
    IN  SelectSeq(mapped, Keep)

\* fetchMoreTransactions: !lastMonth || lastMonth < targetMonth || size < PAGE
MoreDone(mapped, targetMonth) ==
    \/ getYearMonthLocal(Last(mapped)) < targetMonth
    \/ Len(mapped) < TRANSACTIONS_PER_PAGE

\* fetchMoreTransactions: setHasMoreTxns(!!lastMonth && lastMonth <= target
\* && snap.size === TRANSACTIONS_PER_PAGE)
MoreHasMore(mapped, targetMonth) ==
    /\ getYearMonthLocal(Last(mapped)) <= targetMonth
    /\ Len(mapped) = TRANSACTIONS_PER_PAGE

\* --------------------------------------------------------------- numbers
Abs(x) == IF x < 0 THEN 0 - x ELSE x

RECURSIVE GCD(_, _)
GCD(a, b) == IF b = 0 THEN a ELSE GCD(b, a % b)

\* A JavaScript number: the fraction n/d in lowest terms, d > 0.
Num(n, d) ==
    LET g == GCD(Abs(n), d)
    IN  [n |-> n \div g, d |-> d \div g]

NaN == [n |-> 0, d |-> 0]
Whole(k) == Num(k, 1)

\* a / b, a * b, a + b, a < b of JavaScript numbers (b # 0 in a / b: every
\* divisor in the code is a rate that `|| 1` has made non-zero).
Quot(a, b) == IF a = NaN \/ b = NaN THEN NaN ELSE Num(a.n * b.d, a.d * b.n)
Times(a, b) == IF a = NaN \/ b = NaN THEN NaN ELSE Num(a.n * b.n, a.d * b.d)
Plus(a, b) == IF a = NaN \/ b = NaN THEN NaN ELSE Num(a.n * b.d + b.n * a.d, a.d * b.d)
LessThan(a, b) == a # NaN /\ b # NaN /\ a.n * b.d < b.n * a.d

\* What a form or a CSV cell hands over as an amount: a number, or the text
\* of an input field.  EmptyText is the empty field ''.
Number(k) == [kind |-> "number", val |-> Whole(k)]
Text(k) == [kind |-> "text", val |-> Whole(k)]
EmptyText == [kind |-> "text", val |-> NaN]

\* parseFloat(x): of '' it is NaN.
parseFloat(x) == x.val

\* The conversion the operator / applies to its left operand: '' is 0.
ToNumber(x) == IF x = EmptyText THEN Whole(0) ELSE x.val

\* ----------------------------------------------------------------- rates
Currencies == {"USD", "HUF"}

\* conversion_rates of the rate service, base USD: units of a currency per
\* dollar.
RateTable(huf) == [c \in Currencies |-> IF c = "USD" THEN 1 ELSE huf]
RateTables == {RateTable(2), RateTable(4)}

NoRates == <<>>
NoCache == [date |-> 0, rates |-> NoRates]
Days == 1..MaxDays

\* latestRates[c] || 1
RateOr1(rates, c) == IF c \in DOMAIN rates /\ rates[c] # 0 THEN rates[c] ELSE 1

\* manageRateCache: cachedData && date === today
RateHit(cachedData, day) == cachedData # NoCache /\ cachedData.date = day

\* Variant of the failure path that forgets the stale table.
StaleDropped(cachedData, current) == current

\* manageRateCache, catch: if (cachedData) setLatestRates(JSON.parse(cachedData).rates)
StaleReused(cachedData, current) ==
    IF cachedData # NoCache THEN cachedData.rates ELSE current

Toast(message, n, type) == [message |-> message, n |-> n, type |-> type]
NoToast == Toast("", 0, "success")

\* ---------------------------------------------------------------- ledger
\* INCOME_CATEGORIES and EXPENSE_CATEGORIES, cut down to one and two names.
INCOME_CATEGORIES == {"Salary"}
EXPENSE_CATEGORIES == {"Groceries", "Other"}
Categories == INCOME_CATEGORIES \cup EXPENSE_CATEGORIES
Types == {"Expense", "Income"}

\* The category options a form offers for a type (sortedCategories).
CategoriesOf(type) == IF type = "Expense" THEN EXPENSE_CATEGORIES ELSE INCOME_CATEGORIES

UsageKeys == Types \X Categories
EmptyUsage == [k \in UsageKeys |-> 0]

\* A document written by a handler carries the fields of a transaction; the
\* documents the loader is studied on carry their date only.
HasPayload(t) == "type" \in DOMAIN t

\* Variant of the increment that counts every add or edit under one key.
IncrementFirstKey(usage, type, category) ==
    LET k == CHOOSE x \in UsageKeys : TRUE
    IN  [usage EXCEPT ![k] = @ + 1]

\* incrementCategoryUsage(type, category), as the updater it hands to
\* setCategoryUsage.
incrementCategoryUsage(usage, type, category) ==
    IF type = "" \/ category = "" THEN usage
    ELSE [usage EXCEPT ![<<type, category>>] = @ + 1]

\* rebuildCategoryUsageFromTransactions(txns): the counts it sets.
rebuildCategoryUsageFromTransactions(txns) ==
    [k \in UsageKeys |->
        Cardinality({i \in 1..Len(txns) :
            HasPayload(txns[i]) /\ txns[i].type = k[1] /\ txns[i].category = k[2]})]

\* rebuildCategoryUsageFromTransactions([...allTransactions, ...append]):
\* the counts of a concatenation are the sums of the counts.
UsageSum(a, b) == [k \in UsageKeys |-> a[k] + b[k]]

\* The category lists as the forms order them: EXPENSE_CATEGORIES and
\* INCOME_CATEGORIES in the order of the source, seven of the expense
\* names and both income names.
ExpenseCategoryList ==
    <<"Bills", "Car", "Food and drinks", "Groceries", "Home", "Other", "Travel">>
IncomeCategoryList == <<"Salary", "Extra income">>

\* The order that < puts those names in (Array.prototype.sort without a
\* comparator).
NamesInOrder ==
    <<"Bills", "Car", "Extra income", "Food and drinks", "Groceries", "Home", "Other",
      "Salary", "Travel">>
NameRank(c) == CHOOSE k \in 1..Len(NamesInOrder) : NamesInOrder[k] = c

\* counts[c] || 0 with counts = usage[type] || {}
CountOf(usage, type, c) == IF <<type, c>> \in DOMAIN usage THEN usage[<<type, c>>] ELSE 0

\* sortedCategories: slice(0, 5)
TOP_CATEGORIES == 5

\* Variant of the ranking that puts the least used categories first.
RankedAscending(base, usage, type) ==
    LET Place(i) == 1 + Cardinality({j \in 1..Len(base) :
                        \/ CountOf(usage, type, base[j]) < CountOf(usage, type, base[i])
                        \/ CountOf(usage, type, base[j]) = CountOf(usage, type, base[i])
                            /\ j < i})
    IN  [k \in 1..Len(base) |-> base[CHOOSE i \in 1..Len(base) : Place(i) = k]]

\* sortedCategories: baseCategories.map(c => ({ c, n })).sort((a, b) => b.n
\* - a.n), the sort being stable.
Ranked(base, usage, type) ==
    LET Place(i) == 1 + Cardinality({j \in 1..Len(base) :
                        \/ CountOf(usage, type, base[j]) > CountOf(usage, type, base[i])
                        \/ CountOf(usage, type, base[j]) = CountOf(usage, type, base[i])
                            /\ j < i})
    IN  [k \in 1..Len(base) |-> base[CHOOSE i \in 1..Len(base) : Place(i) = k]]

\* names.sort()
SortedNames(names) ==
    LET Place(i) == 1 + Cardinality({j \in 1..Len(names) :
                        NameRank(names[j]) < NameRank(names[i])})
    IN  [k \in 1..Len(names) |-> names[CHOOSE i \in 1..Len(names) : Place(i) = k]]

\* sortedCategories of TransactionForm and EditModal, for a type and the
\* usage counts the form reads (window.__categoryUsageCache).
sortedCategories(usage, type) ==
    LET baseCategories == IF type = "Expense" THEN ExpenseCategoryList
                          ELSE IncomeCategoryList
        ranked == Ranked(baseCategories, usage, type)
        top5 == SubSeq(ranked, 1, Min(TOP_CATEGORIES, Len(ranked)))
        NotTop(c) == \A k \in 1..Len(top5) : top5[k] # c
        rest == SortedNames(SelectSeq(baseCategories, NotTop))
    IN  top5 \o rest

\* A transaction document.
Txn(i, ym, p) ==
    [id |-> i, ym |-> ym, type |-> p.type, category |-> p.category,
     description |-> p.description, originalAmount |-> p.originalAmount,
     originalCurrency |-> p.originalCurrency,
     exchangeRateToBase |-> p.exchangeRateToBase,
     amountInBaseCurrency |-> p.amountInBaseCurrency]

\* Variant of the payload that records the amount itself as its base amount.
PayloadUnconverted(data, rates) ==
    [type |-> data.type, category |-> data.category, description |-> data.description,
     originalAmount |-> parseFloat(data.originalAmount),
     originalCurrency |-> data.originalCurrency,
     exchangeRateToBase |-> Whole(RateOr1(rates, data.originalCurrency)),
     amountInBaseCurrency |-> ToNumber(data.originalAmount)]

\* Variant of the payload that ignores the table and records the amount at
\* par.
PayloadAtPar(data, rates) ==
    [type |-> data.type, category |-> data.category, description |-> data.description,
     originalAmount |-> parseFloat(data.originalAmount),
     originalCurrency |-> data.originalCurrency,
     exchangeRateToBase |-> Whole(1),
     amountInBaseCurrency |-> Quot(ToNumber(data.originalAmount), Whole(1))]

\* addTransaction, updateTransaction, handlePostRecurring: rate =
\* latestRates[originalCurrency] || 1, amountInBase = originalAmount / rate,
\* and the document { ...data, originalAmount: parseFloat(originalAmount),
\* exchangeRateToBase: rate, amountInBaseCurrency: parseFloat(amountInBase) }.
Payload(data, rates) ==
    LET rate == Whole(RateOr1(rates, data.originalCurrency))
        amountInBase == Quot(ToNumber(data.originalAmount), rate)
    IN  [type |-> data.type, category |-> data.category, description |-> data.description,
         originalAmount |-> parseFloat(data.originalAmount),
         originalCurrency |-> data.originalCurrency,
         exchangeRateToBase |-> rate,
         amountInBaseCurrency |-> amountInBase]

\* handleImport: approxRateHufToUsd = 0.0027
approxRateHufToUsd == Num(27, 10000)

\* handleImport: the document built from a row that is not skipped.
ImportPayload(row) ==
    LET amount == parseFloat(row.originalAmount)
        trimmedCategory == IF row.category = "" THEN "Other" ELSE row.category
    IN  [type |-> IF trimmedCategory \in INCOME_CATEGORIES THEN "Income" ELSE "Expense",
         category |-> trimmedCategory, description |-> row.description,
         originalAmount |-> amount, originalCurrency |-> "HUF",
         exchangeRateToBase |-> Quot(Whole(1), approxRateHufToUsd),
         amountInBaseCurrency |-> Times(amount, approxRateHufToUsd)]

\* handleImport: rows with no date or no amount, or with a date or an
\* amount that does not parse, are skipped.
ImportSkips(row) == row.ym = 0 \/ parseFloat(row.originalAmount) = NaN

\* --------------------------------------------------------------- reports
\* Characters of descriptions and of the search field.
toLowerCase(s) == [i \in 1..Len(s) |-> IF s[i] = "A" THEN "a" ELSE
                                       IF s[i] = "B" THEN "b" ELSE s[i]]

\* s.includes(sub)
includes(s, sub) ==
    \E k \in 0..Len(s) : k + Len(sub) <= Len(s) /\ SubSeq(s, k + 1, k + Len(sub)) = sub

\* Variant of the search that compares the characters as they are typed.
MatchesCaseSensitive(description, filter) == includes(description, filter)

\* t.description.toLowerCase().includes(descriptionFilter.toLowerCase())
MatchesDescription(description, filter) ==
    includes(toLowerCase(description), toLowerCase(filter))

\* availableMonths: the months of the held transactions.
availableMonths(txns) == {getYearMonthLocal(t) : t \in Range(txns)}

\* latestRates ? latestRates[displayCurrency] || 1 : 1 (TransactionList and
\* the amount sort key); reportData computes latestRates[displayCurrency]
\* || 1 after its !latestRates return.
conversionRate(rates, currency) ==
    IF rates # NoRates THEN Whole(RateOr1(rates, currency)) ELSE Whole(1)

\* TransactionList: displayAmount of a row; the same expression is the
\* amount sort key and the amount of monthlyData.
displayAmount(t, currency, rates) ==
    IF t.originalCurrency = currency THEN t.originalAmount
    ELSE Times(t.amountInBaseCurrency, conversionRate(rates, currency))

\* The categories in the order < puts their names in.
Alphabetical == <<"Groceries", "Other", "Salary">>

SortKeys == {"transactionDate", "amountInBaseCurrency", "category"}

\* aValue of the comparator: a[sortConfig.key], the amount key converted.
\* Dates and categories stand as numbers that compare as they do.
SortValue(t, key, currency, rates) ==
    IF key = "amountInBaseCurrency" THEN displayAmount(t, currency, rates)
    ELSE IF key = "category"
    THEN Whole(CHOOSE k \in 1..Len(Alphabetical) : Alphabetical[k] = t.category)
    ELSE Whole(getYearMonthLocal(t))

\* The comparator of transactions.sort.
Compare(a, b, sort, currency, rates) ==
    LET aValue == SortValue(a, sort.key, currency, rates)
        bValue == SortValue(b, sort.key, currency, rates)
    IN  IF LessThan(aValue, bValue) THEN (IF sort.direction = "asc" THEN 0 - 1 ELSE 1)
        ELSE IF LessThan(bValue, aValue) THEN (IF sort.direction = "asc" THEN 1 ELSE 0 - 1)
        ELSE 0

\* Array.prototype.sort with that comparator: stable, so an element comes
\* after those that compare below it and those that compare equal and stood
\* before it.
Sorted(s, sort, currency, rates) ==
    LET Place(i) == 1 + Cardinality({j \in 1..Len(s) :
                        \/ Compare(s[j], s[i], sort, currency, rates) < 0
                        \/ Compare(s[j], s[i], sort, currency, rates) = 0 /\ j < i})
    IN  [k \in 1..Len(s) |-> s[CHOOSE i \in 1..Len(s) : Place(i) = k]]

\* filteredTransactions, its three filters.
Filtered(txns, months, categories, filter) ==
    LET InMonths(t) == getYearMonthLocal(t) \in months
        InCategories(t) == t.category \in categories
        Matches(t) == MatchesDescription(t.description, filter)
        byMonth == IF months # {} THEN SelectSeq(txns, InMonths) ELSE txns
        byCategory == IF categories # {} THEN SelectSeq(byMonth, InCategories) ELSE byMonth
    IN  IF filter # <<>> THEN SelectSeq(byCategory, Matches) ELSE byCategory

\* filteredTransactions
filteredTransactions(txns, months, categories, filter, sort, currency, rates) ==
    Sorted(Filtered(txns, months, categories, filter), sort, currency, rates)

RECURSIVE Sum(_)
Sum(nums) == IF nums = <<>> THEN Whole(0)
             ELSE Plus(Sum(SubSeq(nums, 1, Len(nums) - 1)), nums[Len(nums)])

\* reportData, monthlyData: acc[month].expense += amount, the amount being
\* what the list shows.
AmountsOf(txns, currency, rates) ==
    Sum([i \in 1..Len(txns) |-> displayAmount(txns[i], currency, rates)])

\* reportData: reduce((acc, t) => acc + t.amountInBaseCurrency, 0) *
\* conversionRate
TotalOf(txns, currency, rates) ==
    Times(Sum([i \in 1..Len(txns) |-> txns[i].amountInBaseCurrency]),
          conversionRate(rates, currency))

\* reportData(filteredTransactions): the totals, the expenses by category
\* and the months of the trend.
reportData(filtered, currency, rates) ==
    LET IsExpense(t) == t.type = "Expense"
        IsIncome(t) == t.type = "Income"
        expenses == SelectSeq(filtered, IsExpense)
        income == SelectSeq(filtered, IsIncome)
        Of(txns, category) == LET Is(t) == t.category = category IN SelectSeq(txns, Is)
        In(txns, month) == LET Is(t) == getYearMonthLocal(t) = month IN SelectSeq(txns, Is)
    IN  IF rates = NoRates
        THEN [totalExpense |-> Whole(0), totalIncome |-> Whole(0),
              expenseByCategory |-> <<>>, monthlyData |-> <<>>]
        ELSE [totalExpense |-> TotalOf(expenses, currency, rates),
              totalIncome |-> TotalOf(income, currency, rates),
              expenseByCategory |->
                [c \in {t.category : t \in Range(expenses)} |->
                    Sum([i \in 1..Len(Of(expenses, c)) |->
                            Times(Of(expenses, c)[i].amountInBaseCurrency,
                                  conversionRate(rates, currency))])],
              monthlyData |->
                [m \in availableMonths(filtered) |->
                    [expense |-> AmountsOf(In(expenses, m), currency, rates),
                     income |-> AmountsOf(In(income, m), currency, rates)]]]

\* ----------------------------------------------------------------- state
\* usage: the counts of the allTransactions a fetch call closed over, which
\* is all its closing call of rebuildCategoryUsageFromTransactions takes
\* from that list.
NoFetch == [kind |-> "none", lastDoc |-> NoDoc, accum |-> <<>>, target |-> 0,
            cursor |-> NoDoc, usage |-> EmptyUsage]
NewInitial == [kind |-> "initial", lastDoc |-> NoDoc, accum |-> <<>>, target |-> 0,
               cursor |-> NoDoc, usage |-> EmptyUsage]

Ev(kind, recs, stop) == [kind |-> kind, recs |-> recs, stop |-> stop]

\* The effect "Trigger initial fetch when entering Reports", run after the
\* render that follows a state change: fetchInitialTransactions starts (and
\* sets loadingTxns) when the page is reports, nothing is held and nothing
\* is loading.
Render(pg, txns, loading, f) ==
    IF pg = "reports" /\ Len(txns) = 0 /\ ~loading
    THEN loadingTxns' = TRUE /\ fetch' = NewInitial
    ELSE loadingTxns' = loading /\ fetch' = f

\* Remote collections of at most n documents, ids 1..k in use, dated in any
\* months.
Remotes(n) ==
    UNION {{{Doc(i, g[i], 0) : i \in 1..k} :
              g \in {h \in [1..k -> Months] : \A i, j \in 1..k : i < j => h[i] <= h[j]}} :
           k \in 0..n}

\* The component after mount: on the dashboard, or on the reports page (the
\* location is /reports) with the live listener attached and the initial
\* fetch started.
Mounted ==
    /\ usedIds = IdsOf(remote)
    /\ page \in {"dashboard", "reports"}
    /\ allTransactions = <<>>
    /\ lastTxnDoc = NoDoc
    /\ hasMoreTxns = FALSE
    /\ loadingTxns = (page = "reports")
    /\ fetch = IF page = "reports" THEN NewInitial ELSE NoFetch
    /\ snapPending = (page = "reports")
    /\ writes = 0
    /\ ev = Ev("init", <<>>, "")
    /\ lastSnap = <<>>
    /\ backfilled = {}
    /\ usedAll = FALSE

\* manageRateCache found the table of the day in the cache when the
\* component mounted: nothing is asked of the rate service.
RatesCached ==
    /\ today = 1
    /\ instance = 1
    /\ exchangeRatesCache = [date |-> 1, rates |-> RateTable(2)]
    /\ latestRates = RateTable(2)
    /\ rateCalls = {}
    /\ rateLog = [d \in Days |-> 0]

RateCall(inst, day, cachedData) == [inst |-> inst, today |-> day, cachedData |-> cachedData]

\* manageRateCache of the first mount, run up to its return or its first
\* await, on a cache that is absent, of an earlier day (0) or of the day.
RatesAtMount ==
    /\ today = 1
    /\ instance = 1
    /\ exchangeRatesCache \in
            {NoCache} \cup {[date |-> d, rates |-> t] : d \in 0..1, t \in RateTables}
    /\ IF RateHit(exchangeRatesCache, today)
       THEN latestRates = exchangeRatesCache.rates /\ rateCalls = {}
       ELSE latestRates = NoRates /\ rateCalls = {RateCall(1, 1, exchangeRatesCache)}
    /\ rateLog = [d \in Days |-> 0]

\* The rest of the component after mount, with no recurring items defined.
\* selectedMonths starts empty; the effect that preselects the newest month
\* once transactions are held is a choice the user can make and undo.
ClientAtMount ==
    /\ toast = NoToast
    /\ categoryUsage = EmptyUsage
    /\ recurringItems = <<>>
    /\ recSnapPending = (page = "reports")
    /\ editingTransaction = NoDoc
    /\ displayCurrency = "USD"
    /\ selectedMonths = {}
    /\ selectedCategories = {}
    /\ descriptionFilter = <<>>
    /\ sortConfig = [key |-> "transactionDate", direction |-> "desc"]
    /\ currentPage = 1

Init == remote \in Remotes(SeedDocs) /\ Mounted /\ RatesCached /\ ClientAtMount /\ recurring = {}

StaticInit == remote \in Remotes(MaxDocs) /\ Mounted /\ RatesCached /\ ClientAtMount /\ recurring = {}

\* The rate cache alone: the dashboard over an empty collection.
RateInit ==
    /\ remote = {}
    /\ Mounted
    /\ page = "dashboard"
    /\ RatesAtMount
    /\ ClientAtMount
    /\ recurring = {}

\* --------------------------------------------------------------- actions
\* setPage(p) from the navigation buttons; the listeners effect detaches the
\* live listener on leaving reports and attaches it on entering. The pages
\* other than reports (dashboard, recurring, import) are alike to the loader
\* and stand as "dashboard".
SetPage(p) ==
    /\ p # page
    /\ page' = p
    /\ snapPending' = (p = "reports")
    /\ Render(p, allTransactions, loadingTxns, fetch)
    /\ recSnapPending' = (p = "reports")
    /\ ev' = Ev("setPage", <<>>, "")
    /\ UNCHANGED <<remote, usedIds, allTransactions, lastTxnDoc, hasMoreTxns,
                   writes, lastSnap, backfilled, usedAll>>
    /\ UNCHANGED <<rateVars, toast, categoryUsage, recurring, recurringItems,
                   editingTransaction, reportVars>>

\* The live listener's onSnapshot callback.
LiveSnapshot ==
    /\ page = "reports"
    /\ snapPending
    /\ LET live == LiveOf(remote)
           next == MergeLive(allTransactions, live)
       IN  /\ allTransactions' = next
           /\ lastSnap' = live
           /\ ev' = Ev("snapshot", live, "")
           /\ Render(page, next, loadingTxns, fetch)
    /\ snapPending' = FALSE
    /\ UNCHANGED <<remote, usedIds, page, lastTxnDoc, hasMoreTxns, writes,
                   backfilled, usedAll>>
    /\ UNCHANGED <<rateVars, toast, ledgerVars, reportVars>>

\* One round of fetchInitialTransactions' loop: a getDocs and what follows
\* it up to the next await, or to the end of the call.
FetchInitialPage ==
    /\ fetch.kind = "initial"
    /\ LET mapped == Query(remote, fetch.lastDoc, TRANSACTIONS_PER_PAGE)
           accum == fetch.accum \o KeptInitial(mapped)
           lastDoc == IF Len(mapped) = 0 THEN fetch.lastDoc ELSE Last(mapped)
           stop == IF Len(mapped) = 0 THEN "empty"
                   ELSE IF CrossedBoundary(mapped) THEN "crossed"
                   ELSE IF Len(mapped) < TRANSACTIONS_PER_PAGE THEN "short"
                   ELSE ""
       IN  IF stop = ""
           THEN /\ fetch' = [fetch EXCEPT !.lastDoc = lastDoc, !.accum = accum]
                /\ ev' = Ev("page", <<>>, "")
                /\ UNCHANGED <<allTransactions, lastTxnDoc, hasMoreTxns, loadingTxns,
                               categoryUsage>>
           ELSE /\ hasMoreTxns' = (stop = "crossed")
                /\ allTransactions' = accum
                /\ lastTxnDoc' = lastDoc
                /\ categoryUsage' = rebuildCategoryUsageFromTransactions(accum)
                /\ ev' = Ev("initialDone", accum, stop)
                /\ Render(page, accum, FALSE, NoFetch)
    /\ UNCHANGED <<remote, usedIds, page, snapPending, writes, lastSnap,
                   backfilled, usedAll>>
    /\ UNCHANGED <<rateVars, toast, recurring, recurringItems, recSnapPending,
                   editingTransaction, reportVars>>

\* Click on "Load more (1 month)": fetchMoreTransactions up to its first
\* await. The button is rendered on the reports page when hasMoreTxns and is
\* disabled while loadingTxns.
FetchMoreStart ==
    /\ page = "reports"
    /\ hasMoreTxns
    /\ ~loadingTxns
    /\ lastTxnDoc # NoDoc
    /\ IF OldestLoadedMonth(allTransactions) = 0
       THEN UNCHANGED <<fetch, loadingTxns>>
       ELSE /\ loadingTxns' = TRUE
            /\ fetch' = [kind |-> "more", lastDoc |-> lastTxnDoc, accum |-> <<>>,
                         target |-> prevYearMonth(OldestLoadedMonth(allTransactions)),
                         cursor |-> lastTxnDoc,
                         usage |-> rebuildCategoryUsageFromTransactions(allTransactions)]
    /\ ev' = Ev("moreStart", <<>>, "")
    /\ UNCHANGED <<remote, usedIds, page, allTransactions, lastTxnDoc, hasMoreTxns,
                   snapPending, writes, lastSnap, backfilled, usedAll>>
    /\ UNCHANGED <<rateVars, toast, ledgerVars, reportVars>>

\* One round of fetchMoreTransactions' loop.
FetchMorePage ==
    /\ fetch.kind = "more"
    /\ LET mapped == Query(remote, fetch.lastDoc, TRANSACTIONS_PER_PAGE)
           append == fetch.accum \o KeptMore(mapped, fetch.target)
           localLast == IF Len(mapped) = 0 THEN fetch.lastDoc ELSE Last(mapped)
           stop == IF Len(mapped) = 0 THEN "empty"
                   ELSE IF MoreDone(mapped, fetch.target)
                        THEN (IF Len(mapped) < TRANSACTIONS_PER_PAGE THEN "short" ELSE "older")
                   ELSE ""
       IN  IF stop = ""
           THEN /\ fetch' = [fetch EXCEPT !.lastDoc = localLast, !.accum = append]
                /\ ev' = Ev("page", <<>>, "")
                /\ UNCHANGED <<allTransactions, lastTxnDoc, hasMoreTxns, loadingTxns,
                               backfilled, categoryUsage>>
           ELSE /\ hasMoreTxns' = IF stop = "empty" THEN FALSE
                                  ELSE MoreHasMore(mapped, fetch.target)
                /\ allTransactions' = AppendBackfill(allTransactions, append)
                /\ lastTxnDoc' = localLast
                /\ categoryUsage' = UsageSum(fetch.usage,
                                         rebuildCategoryUsageFromTransactions(append))
                /\ backfilled' = backfilled \cup Range(append)
                /\ ev' = Ev("moreDone", append, stop)
                /\ Render(page, AppendBackfill(allTransactions, append), FALSE, NoFetch)
    /\ UNCHANGED <<remote, usedIds, page, snapPending, writes, lastSnap, usedAll>>
    /\ UNCHANGED <<rateVars, toast, recurring, recurringItems, recSnapPending,
                   editingTransaction, reportVars>>

\* Click on "Load all transactions": fetchAllTransactions up to its first
\* await. The button is disabled while loadingTxns or when not hasMoreTxns.
FetchAllStart ==
    /\ page = "reports"
    /\ hasMoreTxns
    /\ ~loadingTxns
    /\ loadingTxns' = TRUE
    /\ fetch' = [kind |-> "all", lastDoc |-> lastTxnDoc, accum |-> <<>>,
                 target |-> 0, cursor |-> lastTxnDoc,
                 usage |-> rebuildCategoryUsageFromTransactions(allTransactions)]
    /\ usedAll' = TRUE
    /\ ev' = Ev("allStart", <<>>, "")
    /\ UNCHANGED <<remote, usedIds, page, allTransactions, lastTxnDoc, hasMoreTxns,
                   snapPending, writes, lastSnap, backfilled>>
    /\ UNCHANGED <<rateVars, toast, ledgerVars, reportVars>>

\* One round of fetchAllTransactions' loop.
FetchAllPage ==
    /\ fetch.kind = "all"
    /\ LET mapped == Query(remote, fetch.lastDoc, TRANSACTIONS_PER_PAGE)
           accum == fetch.accum \o mapped
           localLast == IF Len(mapped) = 0 THEN fetch.lastDoc ELSE Last(mapped)
           stop == IF Len(mapped) = 0 THEN "empty"
                   ELSE IF Len(mapped) < TRANSACTIONS_PER_PAGE THEN "short"
                   ELSE ""
       IN  IF stop = ""
           THEN /\ fetch' = [fetch EXCEPT !.lastDoc = localLast, !.accum = accum]
                /\ ev' = Ev("page", <<>>, "")
                /\ UNCHANGED <<allTransactions, lastTxnDoc, hasMoreTxns, loadingTxns,
                               backfilled, categoryUsage>>
           ELSE /\ hasMoreTxns' = FALSE
                /\ allTransactions' = AppendBackfill(allTransactions, accum)
                /\ lastTxnDoc' = localLast
                /\ categoryUsage' = UsageSum(fetch.usage,
                                         rebuildCategoryUsageFromTransactions(accum))
                /\ backfilled' = backfilled \cup Range(accum)
                /\ ev' = Ev("allDone", accum, stop)
                /\ Render(page, AppendBackfill(allTransactions, accum), FALSE, NoFetch)
    /\ UNCHANGED <<remote, usedIds, page, snapPending, writes, lastSnap, usedAll>>
    /\ UNCHANGED <<rateVars, toast, recurring, recurringItems, recSnapPending,
                   editingTransaction, reportVars>>

\* A write reaches the remote collection; the store notifies the live
\* listener, when one is attached.
Written(kind) ==
    /\ writes < MaxWrites
    /\ writes' = writes + 1
    /\ snapPending' = (page = "reports")
    /\ ev' = Ev(kind, <<>>, "")
    /\ UNCHANGED <<page, allTransactions, lastTxnDoc, hasMoreTxns, loadingTxns,
                   fetch, lastSnap, backfilled, usedAll>>

\* addDoc(collection, document) succeeds: the store assigns a fresh id.
addDoc(i, document) ==
    /\ i = Cardinality(usedIds) + 1
    /\ document.id = i
    /\ remote' = remote \cup {document}
    /\ usedIds' = usedIds \cup {i}
    /\ Written("add")

\* updateDoc(docRef, payload) succeeds: the document exists and takes the
\* payload's values.
updateDoc(d, document) ==
    /\ d \in remote
    /\ document.id = d.id
    /\ remote' = (remote \ {d}) \cup {document}
    /\ UNCHANGED usedIds
    /\ Written("edit")

\* deleteDoc(docRef) succeeds.
deleteDoc(d) ==
    /\ d \in remote
    /\ remote' = remote \ {d}
    /\ UNCHANGED usedIds
    /\ Written("delete")

\* The collection is shared by the sessions of the family (familyId): one of
\* them adds, edits or deletes a transaction, and the write succeeds.  To
\* the loader a document is its id, its month and the rest of its content,
\* which an edit may change (v).
FamilyAdds(i, ym) ==
    /\ addDoc(i, Doc(i, ym, 0))
    /\ UNCHANGED <<rateVars, toast, ledgerVars, reportVars>>

FamilyEdits(d, ym, v) ==
    /\ (ym = d.ym) # (v = d.v)
    /\ updateDoc(d, Doc(d.id, ym, v))
    /\ UNCHANGED <<rateVars, toast, ledgerVars, reportVars>>

FamilyDeletes(d) ==
    /\ deleteDoc(d)
    /\ UNCHANGED <<rateVars, toast, ledgerVars, reportVars>>

\* ------------------------------------------------------------ rate cache
\* The clock passes midnight (UTC: today is new Date().toISOString()).
Tick ==
    /\ today < MaxDays
    /\ today' = today + 1
    /\ ev' = Ev("tick", <<>>, "")
    /\ UNCHANGED <<remote, usedIds, page, allTransactions, lastTxnDoc, hasMoreTxns,
                   loadingTxns, fetch, snapPending, writes, lastSnap, backfilled, usedAll>>
    /\ UNCHANGED <<exchangeRatesCache, latestRates, instance, rateCalls, rateLog>>
    /\ UNCHANGED <<toast, ledgerVars, reportVars>>

\* Sign-out and a new sign-in: App unmounts FinanceTracker and renders a new
\* one.  Its state starts over (what localStorage keeps, categoryUsage and
\* displayCurrency, comes back as it was); the page is the one of the
\* location; its mount effects attach the listeners of the reports page,
\* start the initial fetch there, and run manageRateCache up to its return or
\* its first await.  Calls of the unmounted component stay in flight.
Mount ==
    /\ instance < MaxMounts
    /\ instance' = instance + 1
    /\ IF RateHit(exchangeRatesCache, today)
       THEN /\ latestRates' = exchangeRatesCache.rates
            /\ rateCalls' = rateCalls
       ELSE /\ latestRates' = NoRates
            /\ rateCalls' = rateCalls \cup {RateCall(instance + 1, today, exchangeRatesCache)}
    /\ toast' = NoToast
    /\ allTransactions' = <<>>
    /\ lastTxnDoc' = NoDoc
    /\ hasMoreTxns' = FALSE
    /\ Render(page, <<>>, FALSE, NoFetch)
    /\ snapPending' = (page = "reports")
    /\ recSnapPending' = (page = "reports")
    /\ recurringItems' = <<>>
    /\ editingTransaction' = NoDoc
    /\ selectedMonths' = {}
    /\ selectedCategories' = {}
    /\ descriptionFilter' = <<>>
    /\ sortConfig' = [key |-> "transactionDate", direction |-> "desc"]
    /\ currentPage' = 1
    /\ lastSnap' = <<>>
    /\ backfilled' = {}
    /\ usedAll' = FALSE
    /\ ev' = Ev("mount", <<>>, "")
    /\ UNCHANGED <<remote, usedIds, page, writes, exchangeRatesCache, today, rateLog,
                   categoryUsage, recurring, displayCurrency>>

\* manageRateCache after its awaits, the service having answered with
\* result 'success' and a table: the table is stored under the day the call
\* read when it started, and set as latestRates of the component that made
\* the call, if that is still the mounted one.
RateFetchSucceeds(c, rates) ==
    /\ c \in rateCalls
    /\ rateCalls' = rateCalls \ {c}
    /\ exchangeRatesCache' = [date |-> c.today, rates |-> rates]
    /\ latestRates' = IF c.inst = instance THEN rates ELSE latestRates
    /\ rateLog' = [rateLog EXCEPT ![c.today] = @ + 1]
    /\ ev' = Ev("ratesFetched", <<>>, "")
    /\ UNCHANGED <<remote, usedIds, page, allTransactions, lastTxnDoc, hasMoreTxns,
                   loadingTxns, fetch, snapPending, writes, lastSnap, backfilled, usedAll>>
    /\ UNCHANGED <<today, instance, toast, ledgerVars, reportVars>>

\* manageRateCache after its awaits, the request having failed or the
\* service having answered with an error: the catch block.
RateFetchFails(c) ==
    /\ c \in rateCalls
    /\ rateCalls' = rateCalls \ {c}
    /\ toast' = IF c.inst = instance
                THEN Toast("Could not update daily rates", 0, "error")
                ELSE toast
    /\ latestRates' = IF c.inst = instance
                      THEN StaleReused(c.cachedData, latestRates)
                      ELSE latestRates
    /\ ev' = Ev("ratesFailed", <<>>, "")
    /\ UNCHANGED <<remote, usedIds, page, allTransactions, lastTxnDoc, hasMoreTxns,
                   loadingTxns, fetch, snapPending, writes, lastSnap, backfilled, usedAll>>
    /\ UNCHANGED <<exchangeRatesCache, today, instance, rateLog, ledgerVars, reportVars>>

RateCache ==
    \/ Tick
    \/ Mount
    \/ \E c \in rateCalls, rates \in RateTables : RateFetchSucceeds(c, rates)
    \/ \E c \in rateCalls : RateFetchFails(c)

\* --------------------------------------------------------------- handlers
\* A handler step that writes nothing to the transactions collection and
\* leaves the loader as it is.
NoWrite(kind) ==
    /\ ev' = Ev(kind, <<>>, "")
    /\ UNCHANGED <<remote, usedIds, page, allTransactions, lastTxnDoc, hasMoreTxns,
                   loadingTxns, fetch, snapPending, writes, lastSnap, backfilled, usedAll>>

\* Variant of the gate that lets every submission through.
DataAlwaysReady(rates) == FALSE

\* addTransaction, updateTransaction, handlePostRecurring: !latestRates.
DataNotReady(rates) == rates = NoRates

\* A recurring item as the listener maps it: { id: d.id, ...d.data() }, the
\* amount a number (addRecurringItem: parseFloat(data.originalAmount)).
RecurringItem(i, type, category, description, amount, currency) ==
    [id |-> i, type |-> type, category |-> category, description |-> description,
     originalAmount |-> Number(amount), originalCurrency |-> currency]

\* The recurring collection the family has defined.
RecurringDefined ==
    {RecurringItem(1, "Expense", "Other", <<"r">>, 8, "HUF"),
     RecurringItem(2, "Income", "Salary", <<"s">>, 4, "USD")}

\* A handler that was invoked and wrote nothing: it was blocked, had nothing
\* to write, or its store call failed.  Invocations count as writes do, so
\* that MaxWrites bounds them.
Attempted(kind) ==
    /\ writes < MaxWrites
    /\ writes' = writes + 1
    /\ ev' = Ev(kind, <<>>, "")
    /\ UNCHANGED <<remote, usedIds, page, allTransactions, lastTxnDoc, hasMoreTxns,
                   loadingTxns, fetch, snapPending, lastSnap, backfilled, usedAll>>

\* What TransactionForm submits: the amount is a number (parseFloat(amount)),
\* the category one of the options of the type, the date in the current
\* month.
Form(type, category, description, amount, currency) ==
    [type |-> type, category |-> category, description |-> description,
     originalAmount |-> Number(amount), originalCurrency |-> currency, ym |-> NowYM]

FormData ==
    {Form("Expense", "Groceries", <<>>, 8, "USD"),
     Form("Expense", "Other", <<"r">>, 8, "HUF"),
     Form("Income", "Salary", <<"s">>, 4, "HUF")}

ValidForm(data) == data.category \in CategoriesOf(data.type)

\* addTransaction(data); ok: addDoc succeeds.
addTransaction(data, ok) ==
    /\ page = "dashboard"
    /\ ValidForm(data)
    /\ IF DataNotReady(latestRates)
       THEN /\ toast' = Toast("Data not ready, please try again.", 0, "error")
            /\ Attempted("addBlocked")
            /\ UNCHANGED categoryUsage
       ELSE IF ok
       THEN /\ \E i \in 1..(Cardinality(usedIds) + 1) :
                    addDoc(i, Txn(i, data.ym, Payload(data, latestRates)))
            /\ categoryUsage' = incrementCategoryUsage(categoryUsage, data.type, data.category)
            /\ toast' = Toast("added successfully!", 0, "success")
       ELSE /\ toast' = Toast("Failed to add transaction", 0, "error")
            /\ Attempted("addFailed")
            /\ UNCHANGED categoryUsage
    /\ UNCHANGED <<rateVars, recurring, recurringItems, recSnapPending,
                   editingTransaction, reportVars>>

\* The pencil of a listed transaction: onEdit = setEditingTransaction.
setEditingTransaction(t) ==
    /\ page = "reports"
    /\ editingTransaction = NoDoc
    /\ HasPayload(t)
    /\ editingTransaction' = t
    /\ NoWrite("editStart")
    /\ UNCHANGED <<rateVars, toast, categoryUsage, recurring, recurringItems,
                   recSnapPending, reportVars>>

\* What EditModal submits for a transaction: its fields as they were read,
\* or with one of them changed; an amount typed into the field is text.
EditsOf(t) ==
    IF ~HasPayload(t) THEN {} ELSE
    LET same == [type |-> t.type, category |-> t.category, description |-> t.description,
                 originalAmount |-> [kind |-> "number", val |-> t.originalAmount],
                 originalCurrency |-> t.originalCurrency, ym |-> t.ym]
    IN  {same, [same EXCEPT !.originalAmount = Text(4)]}
        \cup {[same EXCEPT !.originalCurrency = cur] : cur \in Currencies}
        \cup {[same EXCEPT !.type = ty, !.category = c] : ty \in Types, c \in Categories}
        \cup {[same EXCEPT !.ym = prevYearMonth(PrevYM)]}

\* updateTransaction(updatedData); ok: updateDoc succeeds, which takes the
\* document to exist.
updateTransaction(updatedData, ok) ==
    /\ editingTransaction # NoDoc
    /\ ValidForm(updatedData)
    /\ IF DataNotReady(latestRates)
       THEN /\ toast' = Toast("Data not ready, please try again.", 0, "error")
            /\ Attempted("editBlocked")
            /\ UNCHANGED <<categoryUsage, editingTransaction>>
       ELSE IF ok
       THEN /\ \E d \in remote :
                /\ d.id = editingTransaction.id
                /\ updateDoc(d, Txn(d.id, updatedData.ym, Payload(updatedData, latestRates)))
            /\ categoryUsage' = incrementCategoryUsage(categoryUsage, updatedData.type,
                                                       updatedData.category)
            /\ toast' = Toast("Transaction updated!", 0, "success")
            /\ editingTransaction' = NoDoc
       ELSE /\ toast' = Toast("Update failed", 0, "error")
            /\ Attempted("editFailed")
            /\ UNCHANGED <<categoryUsage, editingTransaction>>
    /\ UNCHANGED <<rateVars, recurring, recurringItems, recSnapPending, reportVars>>

\* Cancel in EditModal: setEditingTransaction(null).
CancelEdit ==
    /\ editingTransaction # NoDoc
    /\ editingTransaction' = NoDoc
    /\ NoWrite("editCancel")
    /\ UNCHANGED <<rateVars, toast, categoryUsage, recurring, recurringItems,
                   recSnapPending, reportVars>>

\* The bin of a listed transaction and the confirmation: requestDelete(id,
\* 'transaction'), then handleConfirmDelete; ok: deleteDoc succeeds (also on
\* a document that is no longer there).
handleConfirmDelete(t, ok) ==
    /\ page = "reports"
    /\ editingTransaction = NoDoc
    /\ IF ok
       THEN /\ toast' = Toast("Transaction deleted.", 0, "success")
            /\ IF \E d \in remote : d.id = t.id
               THEN \E d \in remote : d.id = t.id /\ deleteDoc(d)
               ELSE Attempted("delete")
       ELSE /\ toast' = Toast("Failed to delete", 0, "error")
            /\ Attempted("deleteFailed")
    /\ UNCHANGED <<rateVars, ledgerVars, reportVars>>

\* The recurring listener's onSnapshot callback: orderBy('createdAt',
\* 'desc'), the items numbered in the order of their creation.
RECURSIVE NewestFirst(_)
NewestFirst(S) ==
    IF S = {} THEN <<>>
    ELSE LET first == CHOOSE x \in S : \A y \in S : y.id <= x.id
         IN  <<first>> \o NewestFirst(S \ {first})

RecurringSnapshot ==
    /\ page = "reports"
    /\ recSnapPending
    /\ recSnapPending' = FALSE
    /\ recurringItems' = NewestFirst(recurring)
    /\ NoWrite("recurringSnapshot")
    /\ UNCHANGED <<rateVars, toast, categoryUsage, recurring, editingTransaction,
                   reportVars>>

\* handlePostRecurring: the recurring items whose description no held
\* transaction of the current month has.
ToAdd(items, txns) ==
    LET InCurrentMonth(t) == getYearMonthLocal(t) = NowYM
        currentMonthTransactions == SelectSeq(txns, InCurrentMonth)
        Missing(item) == ~\E i \in 1..Len(currentMonthTransactions) :
                            /\ HasPayload(currentMonthTransactions[i])
                            /\ currentMonthTransactions[i].description = item.description
    IN  SelectSeq(items, Missing)

\* "Add for this Month" on the recurring page: handlePostRecurring; ok:
\* batch.commit succeeds.
handlePostRecurring(ok) ==
    /\ page = "dashboard"
    /\ IF DataNotReady(latestRates)
       THEN /\ toast' = Toast("Data not ready", 0, "error")
            /\ Attempted("postBlocked")
       ELSE LET toAdd == ToAdd(recurringItems, allTransactions)
                base == Cardinality(usedIds)
                batch == {Txn(base + j, NowYM, Payload(toAdd[j], latestRates)) :
                            j \in 1..Len(toAdd)}
            IN  IF Len(toAdd) = 0
                THEN /\ toast' = Toast("All recurring items for this month are already added.",
                                       0, "success")
                     /\ Attempted("postNothing")
                ELSE IF ok
                THEN /\ remote' = remote \cup batch
                     /\ usedIds' = usedIds \cup {d.id : d \in batch}
                     /\ Written("post")
                     /\ toast' = Toast("Added recurring item(s).", Len(toAdd), "success")
                ELSE /\ toast' = Toast("Failed to add recurring items", 0, "error")
                     /\ Attempted("postFailed")
    /\ UNCHANGED <<rateVars, ledgerVars, reportVars>>

\* Rows of a CSV file after the header: date, amount, category, description.
\* ym = 0 stands for a date cell that is empty or does not parse.
Row(ym, amount, category, description) ==
    [ym |-> ym, originalAmount |-> amount, category |-> category,
     description |-> description]

ImportFiles ==
    {<<Row(0, Text(8), "Other", <<>>), Row(NowYM, EmptyText, "Other", <<>>),
       Row(PrevYM, Text(4), "Salary", <<>>),
       Row(prevYearMonth(PrevYM), Text(8), "", <<"r">>),
       Row(prevYearMonth(PrevYM), Text(8), "Groceries", <<>>)>>,
     <<Row(0, EmptyText, "", <<>>)>>}

\* The number of writes after which handleImport commits its batch: 500 in
\* the source, scaled to the files of the model.
IMPORT_BATCH == 2

\* handleImport: the rows whose documents reach the collection.  The batch
\* in hand is committed inside the loop after a row that was not skipped and
\* whose place in the file, (i + 1), is a multiple of the batch size; what
\* is left after the loop is committed if importedCount > 0 and
\* importedCount is not a multiple of the batch size.
Committed(rows) ==
    LET Kept(i) == ~ImportSkips(rows[i])
        importedCount == Cardinality({i \in 1..Len(rows) : Kept(i)})
        commits == {i \in 1..Len(rows) : Kept(i) /\ i % IMPORT_BATCH = 0}
        lastCommit == IF commits = {} THEN 0
                      ELSE CHOOSE i \in commits : \A j \in commits : j <= i
        final == importedCount > 0 /\ importedCount % IMPORT_BATCH # 0
        Reaches(i) == Kept(i) /\ (i <= lastCommit \/ final)
        places == SelectSeq([i \in 1..Len(rows) |-> i], Reaches)
    IN  [k \in 1..Len(places) |-> rows[places[k]]]

\* "Start Import" on the import page: handleImport with reader.onload, run
\* to its end; the toast reports importedCount.
handleImport(rows) ==
    /\ page = "dashboard"
    /\ LET Kept(row) == ~ImportSkips(row)
           kept == SelectSeq(rows, Kept)
           written == Committed(rows)
           base == Cardinality(usedIds)
           batch == {Txn(base + j, written[j].ym, ImportPayload(written[j])) :
                        j \in 1..Len(written)}
       IN  /\ toast' = Toast("Successfully imported records.", Len(kept), "success")
           /\ IF Len(written) = 0
              THEN Attempted(IF Len(kept) = 0 THEN "importNothing" ELSE "importLost")
              ELSE /\ remote' = remote \cup batch
                   /\ usedIds' = usedIds \cup {d.id : d \in batch}
                   /\ Written("import")
    /\ UNCHANGED <<rateVars, ledgerVars, reportVars>>

\* The currency select of the summary: onCurrencyChange = setDisplayCurrency.
setDisplayCurrency(c) ==
    /\ page = "reports"
    /\ c # displayCurrency
    /\ displayCurrency' = c
    /\ NoWrite("displayCurrency")
    /\ UNCHANGED <<rateVars, toast, ledgerVars, selectedMonths, selectedCategories,
                   descriptionFilter, sortConfig, currentPage>>

\* Variant of the effect without the reset: the page stays where it is.
KeepPage(p) == p

\* useEffect(() => { setCurrentPage(1); }, [selectedMonths,
\* selectedCategories, descriptionFilter]): the page after a filter changed.
ResetPage(p) == 1

\* A filter was set: the handler writes nothing, and the effect on the
\* filters runs after the render.  The history keeps whether the list stood
\* on its first page or on a later one.
FilterChanged(kind) ==
    /\ currentPage' = ResetPage(currentPage)
    /\ ev' = Ev(kind, <<>>, IF currentPage > 1 THEN "later" ELSE "first")
    /\ UNCHANGED <<remote, usedIds, page, allTransactions, lastTxnDoc, hasMoreTxns,
                   loadingTxns, fetch, snapPending, writes, lastSnap, backfilled, usedAll>>

\* MonthFilter.handleMonthChange: the options selected in the list, "All
\* Months" among them or not.
handleMonthChange(selectedOptions, all) ==
    /\ page = "reports"
    /\ selectedOptions \subseteq availableMonths(allTransactions)
    /\ selectedMonths' = IF all THEN {} ELSE selectedOptions
    /\ selectedMonths' # selectedMonths
    /\ FilterChanged("months")
    /\ UNCHANGED <<rateVars, toast, ledgerVars, displayCurrency, selectedCategories,
                   descriptionFilter, sortConfig>>

\* CategoryFilter.handleCategoryClick
handleCategoryClick(category) ==
    /\ page = "reports"
    /\ selectedCategories' =
            IF category = "All"
            THEN (IF Categories \subseteq selectedCategories THEN {} ELSE Categories)
            ELSE IF category \in selectedCategories
            THEN selectedCategories \ {category}
            ELSE selectedCategories \cup {category}
    /\ FilterChanged("categories")
    /\ UNCHANGED <<rateVars, toast, ledgerVars, displayCurrency, selectedMonths,
                   descriptionFilter, sortConfig>>

\* What is typed into "Search descriptions...".
FilterTexts == {<<>>, <<"A">>, <<"a", "b">>}

\* The search field: onChange = setDescriptionFilter(e.target.value).
setDescriptionFilter(text) ==
    /\ page = "reports"
    /\ text # descriptionFilter
    /\ descriptionFilter' = text
    /\ FilterChanged("description")
    /\ UNCHANGED <<rateVars, toast, ledgerVars, displayCurrency, selectedMonths,
                   selectedCategories, sortConfig>>

\* TransactionList.requestSort(key)
requestSort(key) ==
    /\ page = "reports"
    /\ sortConfig' = [key |-> key,
                      direction |-> IF sortConfig.key = key /\ sortConfig.direction = "asc"
                                    THEN "desc" ELSE "asc"]
    /\ NoWrite("sort")
    /\ UNCHANGED <<rateVars, toast, ledgerVars, displayCurrency, selectedMonths,
                   selectedCategories, descriptionFilter, currentPage>>

ReportControls ==
    \/ \E c \in Currencies : setDisplayCurrency(c)
    \/ \E selectedOptions \in SUBSET availableMonths(allTransactions), all \in BOOLEAN :
            handleMonthChange(selectedOptions, all)
    \/ \E category \in Categories \cup {"All"} : handleCategoryClick(category)
    \/ \E text \in FilterTexts : setDescriptionFilter(text)
    \/ \E key \in SortKeys : requestSort(key)

Handlers ==
    \/ \E data \in FormData, ok \in BOOLEAN : addTransaction(data, ok)
    \/ \E t \in Range(allTransactions) : setEditingTransaction(t)
    \/ \E updatedData \in EditsOf(editingTransaction), ok \in BOOLEAN :
            updateTransaction(updatedData, ok)
    \/ CancelEdit
    \/ \E t \in Range(allTransactions), ok \in BOOLEAN : handleConfirmDelete(t, ok)
    \/ RecurringSnapshot
    \/ \E ok \in BOOLEAN : handlePostRecurring(ok)
    \/ \E rows \in ImportFiles : handleImport(rows)

Loader ==
    \/ \E p \in {"dashboard", "reports"} : SetPage(p)
    \/ LiveSnapshot
    \/ FetchInitialPage
    \/ FetchMoreStart
    \/ FetchMorePage
    \/ FetchAllStart
    \/ FetchAllPage

Writes ==
    \/ \E i \in Ids, ym \in Months : FamilyAdds(i, ym)
    \/ \E d \in remote, ym \in Months, v \in 0..1 : FamilyEdits(d, ym, v)
    \/ \E d \in remote : FamilyDeletes(d)

Next == Loader \/ Writes

\* The loader with the remote collection changing under it.
Spec == Init /\ [][Next]_vars

\* The loader against an unchanging remote collection.
StaticSpec == StaticInit /\ [][Loader]_vars

\* The user enters the reports page and then leaves the application alone:
\* what follows are the answers of the store to the listener and to the
\* getDocs calls of the initial fetch.
\* Every getDocs is answered and every snapshot is delivered.
EnterSpec ==
    /\ StaticInit
    /\ [][SetPage("reports") \/ LiveSnapshot \/ FetchInitialPage]_vars
    /\ WF_vars(FetchInitialPage)
    /\ WF_vars(LiveSnapshot)

\* The rate cache over mounts and days.
RateSpec == RateInit /\ [][RateCache]_vars

\* The handlers of one session over a collection that starts empty;
\* manageRateCache found the table of an earlier day and has asked the rate
\* service.
LedgerInit ==
    /\ remote = {}
    /\ Mounted
    /\ today = 1
    /\ instance = 1
    /\ exchangeRatesCache = [date |-> 0, rates |-> RateTable(2)]
    /\ latestRates = NoRates
    /\ rateCalls = {RateCall(1, 1, exchangeRatesCache)}
    /\ rateLog = [d \in Days |-> 0]
    /\ ClientAtMount
    /\ recurring = RecurringDefined

\* The least number of transactions the reports are studied on.
MinHeld == 3

\* Transactions written by earlier sessions, under the rate table of their
\* day or by a CSV import.
Written1 == Txn(1, PrevYM, ImportPayload(Row(PrevYM, Text(8), "Other", <<"b">>)))
Written2 == Txn(2, PrevYM, Payload(Form("Income", "Salary", <<>>, 4, "HUF"), RateTable(4)))
Written3 == Txn(3, NowYM, Payload(Form("Expense", "Other", <<"a">>, 8, "HUF"), RateTable(2)))
Written4 == Txn(4, NowYM, Payload(Form("Expense", "Groceries", <<"A", "b">>, 8, "USD"),
                                  RateTable(2)))

\* The reports page with the live window loaded: the collection holds some
\* of those transactions, all of the current and the previous month; the
\* month filter has been preset to the newest month; manageRateCache has
\* ended with a table, or without one (no cache and the lookup failed).
ReportInit ==
    /\ remote \in SUBSET {Written1, Written2, Written3, Written4}
    /\ Cardinality(remote) >= MinHeld
    /\ usedIds = 1..4
    /\ page = "reports"
    /\ allTransactions = Ordered(remote)
    /\ lastTxnDoc = Last(allTransactions)
    /\ hasMoreTxns = FALSE
    /\ loadingTxns = FALSE
    /\ fetch = NoFetch
    /\ snapPending = FALSE
    /\ writes = 0
    /\ ev = Ev("init", <<>>, "")
    /\ lastSnap = allTransactions
    /\ backfilled = {}
    /\ usedAll = FALSE
    /\ today = 1
    /\ instance = 1
    /\ exchangeRatesCache \in {NoCache} \cup {[date |-> 1, rates |-> t] : t \in RateTables}
    /\ latestRates = exchangeRatesCache.rates
    /\ rateCalls = {}
    /\ rateLog = [d \in Days |-> 0]
    /\ toast = NoToast
    /\ categoryUsage = rebuildCategoryUsageFromTransactions(allTransactions)
    /\ recurring = {}
    /\ recurringItems = <<>>
    /\ recSnapPending = FALSE
    /\ editingTransaction = NoDoc
    /\ displayCurrency = "USD"
    /\ selectedMonths = {getYearMonthLocal(allTransactions[1])}
    /\ selectedCategories = {}
    /\ descriptionFilter = <<>>
    /\ sortConfig = [key |-> "transactionDate", direction |-> "desc"]
    /\ currentPage = 1

ReportSpec == ReportInit /\ [][ReportControls]_vars

\* Math.ceil(filteredTransactions.length / TRANSACTIONS_PER_PAGE)
totalPages ==
    (Len(Filtered(allTransactions, selectedMonths, selectedCategories, descriptionFilter))
        + TRANSACTIONS_PER_PAGE - 1) \div TRANSACTIONS_PER_PAGE

\* paginatedTransactions: filteredTransactions.slice(startIndex, endIndex)
paginatedTransactions(filtered, p) ==
    LET startIndex == (p - 1) * TRANSACTIONS_PER_PAGE
        endIndex == startIndex + TRANSACTIONS_PER_PAGE
    IN  SubSeq(filtered, startIndex + 1, Min(endIndex, Len(filtered)))

\* "Next" under the list, disabled when currentPage >= totalPages.
onNextPage ==
    /\ page = "reports"
    /\ ~(currentPage >= totalPages)
    /\ currentPage' = Min(currentPage + 1, totalPages)
    /\ NoWrite("nextPage")
    /\ UNCHANGED <<rateVars, toast, ledgerVars, displayCurrency, selectedMonths,
                   selectedCategories, descriptionFilter, sortConfig>>

\* "Previous" under the list, disabled when currentPage === 1.
onPrevPage ==
    /\ page = "reports"
    /\ currentPage # 1
    /\ currentPage' = IF currentPage - 1 > 1 THEN currentPage - 1 ELSE 1
    /\ NoWrite("prevPage")
    /\ UNCHANGED <<rateVars, toast, ledgerVars, displayCurrency, selectedMonths,
                   selectedCategories, descriptionFilter, sortConfig>>

\* The list of the reports page: its filters, its page buttons, the bin of
\* a row on the page shown, and the live listener.
PageNext ==
    \/ \E selectedOptions \in SUBSET availableMonths(allTransactions), all \in BOOLEAN :
            handleMonthChange(selectedOptions, all)
    \/ \E category \in Categories \cup {"All"} : handleCategoryClick(category)
    \/ \E text \in FilterTexts : setDescriptionFilter(text)
    \/ onNextPage
    \/ onPrevPage
    \/ \E t \in Range(paginatedTransactions(
                        Filtered(allTransactions, selectedMonths, selectedCategories,
                                 descriptionFilter), currentPage)), ok \in BOOLEAN :
            handleConfirmDelete(t, ok)
    \/ LiveSnapshot

PageSpec == ReportInit /\ [][PageNext]_vars

\* The highest usage count the category ordering is studied on.
MaxCount == 2

\* The dashboard after mount with the usage counts of earlier sessions
\* (localStorage categoryUsageV1), which the effect has handed to
\* window.__categoryUsageCache.
CategoryInit ==
    /\ remote = {}
    /\ Mounted
    /\ page = "dashboard"
    /\ RatesCached
    /\ toast = NoToast
    /\ categoryUsage \in
            [({"Expense"} \X Range(ExpenseCategoryList))
                \cup ({"Income"} \X Range(IncomeCategoryList)) -> 0..MaxCount]
    /\ recurring = {}
    /\ recurringItems = <<>>
    /\ recSnapPending = FALSE
    /\ editingTransaction = NoDoc
    /\ displayCurrency = "USD"
    /\ selectedMonths = {}
    /\ selectedCategories = {}
    /\ descriptionFilter = <<>>
    /\ sortConfig = [key |-> "transactionDate", direction |-> "desc"]
    /\ currentPage = 1

\* TransactionForm renders for a type (setType from the type select): the
\* options of its category select.
FormRenders(type) ==
    /\ page = "dashboard"
    /\ ev' = Ev("sortedCategories", sortedCategories(categoryUsage, type), type)
    /\ UNCHANGED <<remote, usedIds, page, allTransactions, lastTxnDoc, hasMoreTxns,
                   loadingTxns, fetch, snapPending, writes, lastSnap, backfilled, usedAll>>
    /\ UNCHANGED <<rateVars, toast, ledgerVars, reportVars>>

CategorySpec == CategoryInit /\ [][\E type \in Types : FormRenders(type)]_vars

RateAnswers ==
    \/ \E c \in rateCalls : RateFetchSucceeds(c, RateTable(4))
    \/ \E c \in rateCalls : RateFetchFails(c)

LedgerNext == Loader \/ Handlers \/ RateAnswers

LedgerSpec == LedgerInit /\ [][LedgerNext]_vars

\* The longest file the import is studied on.
MaxRows == 4

\* Files of up to MaxRows rows, each a row of the current month, a row of
\* the previous month or a row that is skipped (no date, no amount).
ImportRows ==
    UNION {[1..n -> {Row(NowYM, Text(8), "Other", <<>>),
                     Row(PrevYM, Text(4), "Salary", <<>>),
                     Row(0, EmptyText, "", <<>>)}] : n \in 0..MaxRows}

\* The import page over a collection that starts empty.
ImportSpec == LedgerInit /\ [][\E rows \in ImportRows : handleImport(rows)]_vars

\* A getDocs of a fetch call in flight rejects (fetchInitialTransactions,
\* fetchMoreTransactions, fetchAllTransactions): the call has try / finally
\* and no catch, so the finally block sets loadingTxns to false, the
\* rejection leaves the call, and the render that follows runs the trigger
\* effect.  Failures count against MaxWrites as the other failed calls do.
FetchFails ==
    /\ fetch.kind # "none"
    /\ writes < MaxWrites
    /\ writes' = writes + 1
    /\ Render(page, allTransactions, FALSE, NoFetch)
    /\ ev' = Ev("fetchFailed", <<>>, fetch.kind)
    /\ UNCHANGED <<remote, usedIds, page, allTransactions, lastTxnDoc, hasMoreTxns,
                   snapPending, lastSnap, backfilled, usedAll>>
    /\ UNCHANGED <<rateVars, toast, ledgerVars, reportVars>>

\* The session of LedgerSpec with page fetches that can fail.
FailureSpec == LedgerInit /\ [][LedgerNext \/ FetchFails]_vars


\* ------------------------------------------------- migrateTransactionDates
\* Hours by which the clock of the machine that runs the script is ahead of
\* UTC.
ScriptUtcOffset == 1

\* The most documents the migration is studied on.
MaxMigrationDocs == 2

Digits == <<"0", "1", "2", "3", "4", "5", "6", "7", "8", "9">>

\* String(n).padStart(2, '0'), n below 100
padStart2(n) == <<Digits[(n \div 10) + 1], Digits[(n % 10) + 1]>>

\* `${yyyy}-${mm}-${dd}`: the year as its four digits.
DateString(yyyy, mm, dd) ==
    <<Digits[(yyyy \div 1000) + 1], Digits[((yyyy \div 100) % 10) + 1],
      Digits[((yyyy \div 10) % 10) + 1], Digits[(yyyy % 10) + 1]>>
        \o <<"-">> \o padStart2(mm) \o <<"-">> \o padStart2(dd)

\* The values of the field transactionDate: a Firestore Timestamp (an
\* instant: day and hour, UTC), a string, or no field.
DateField(kind, day, hour, text) == [kind |-> kind, day |-> day, hour |-> hour, text |-> text]

\* dateField.toDate() read with getFullYear, getMonth and getDate: the
\* calendar date of the instant on the clock of the machine.  Days count
\* from 2023-12-31 (day 0) up to the end of February 2024.
LocalDate(dateField) ==
    LET h == dateField.hour + ScriptUtcOffset
        n == IF h >= 24 THEN dateField.day + 1
             ELSE IF h < 0 THEN dateField.day - 1
             ELSE dateField.day
    IN  IF n <= 0 THEN [yyyy |-> 2023, mm |-> 12, dd |-> 31 + n]
        ELSE IF n <= 31 THEN [yyyy |-> 2024, mm |-> 1, dd |-> n]
        ELSE [yyyy |-> 2024, mm |-> 2, dd |-> n - 31]

\* The transactions collection as the script sees it: of each document its
\* id, its transactionDate and the rest of its fields (v).
MigrationCollections ==
    LET dateFields == {DateField("timestamp", 9, 0, <<>>), DateField("timestamp", 31, 23, <<>>),
                       DateField("timestamp", 1, 0, <<>>),
                       DateField("string", 0, 0, DateString(2024, 1, 9)),
                       DateField("string", 0, 0, <<"9", "/", "1">>),
                       DateField("undefined", 0, 0, <<>>)}
    IN  UNION {{{[id |-> i, transactionDate |-> f[i], v |-> g[i]] : i \in 1..k} :
                    f \in [1..k -> dateFields], g \in [1..k -> 0..1]} :
               k \in 0..MaxMigrationDocs}

\* Variant of the test that takes every document that has the field.
HasDateField(dateField) == dateField.kind # "undefined"

\* dateField instanceof Timestamp
IsTimestamp(dateField) == dateField.kind = "timestamp"

\* doc.ref.update({ transactionDate: dateString })
Migrated(d) ==
    LET jsDate == LocalDate(d.transactionDate)
    IN  [d EXCEPT !.transactionDate =
                    DateField("string", 0, 0, DateString(jsDate.yyyy, jsDate.mm, jsDate.dd))]

\* One run of the script over the collection: the documents it updates are
\* kept in the history, their number is the count it logs.  Runs count
\* against MaxWrites.
migrateTransactionDates ==
    /\ writes < MaxWrites
    /\ writes' = writes + 1
    /\ LET updated == {d \in remote : IsTimestamp(d.transactionDate)}
       IN  /\ remote' = (remote \ updated) \cup {Migrated(d) : d \in updated}
           /\ ev' = Ev("migrate", NewestFirst(updated), "")
    /\ UNCHANGED <<usedIds, page, allTransactions, lastTxnDoc, hasMoreTxns, loadingTxns,
                   fetch, snapPending, lastSnap, backfilled, usedAll>>
    /\ UNCHANGED <<rateVars, toast, ledgerVars, reportVars>>

\* The collection before the script runs; the application is not in use.
MigrationInit ==
    /\ remote \in MigrationCollections
    /\ Mounted
    /\ page = "dashboard"
    /\ RatesCached
    /\ ClientAtMount
    /\ recurring = {}

MigrationSpec == MigrationInit /\ [][migrateTransactionDates]_vars

\* ---------------------------------------------------------------- claims
InWindow(t) == getYearMonthLocal(t) >= PrevYM
OlderThanWindow(t) == getYearMonthLocal(t) < PrevYM
NoDuplicates(s) == \A i, j \in 1..Len(s) : s[i] = s[j] => i = j

\* C1: when the live listener delivers a snapshot, the held records of the
\* live window (month >= current month minus 1) are replaced by the
\* snapshot's in-window records, and the held records of older months stay
\* as they were, in the same order.
C1_SnapshotReplacesWindowOnly ==
    [][ev'.kind = "snapshot" =>
        /\ SelectSeq(allTransactions', InWindow)
             = SelectSeq(Query(remote, NoDoc, LIVE_LIMIT), InWindow)
        /\ SelectSeq(allTransactions', OlderThanWindow)
             = SelectSeq(allTransactions, OlderThanWindow)]_vars

\* C1 witness: a snapshot was merged after a remote write into a store that
\* holds backfilled older records and live-window records.
C1_Witness ==
    /\ ev.kind = "snapshot"
    /\ writes > 0
    /\ \E i \in 1..Len(ev.recs) : ev.recs[i].v = 1
    /\ \E i \in 1..Len(allTransactions) : OlderThanWindow(allTransactions[i])


C4_InitialHasMore ==
    ev.kind = "initialDone" =>
        /\ hasMoreTxns <=> (lastTxnDoc # NoDoc /\ OlderThanWindow(lastTxnDoc))
        /\ ~hasMoreTxns => Query(remote, lastTxnDoc, 1) = <<>>

\* C4 witness: the initial fetch stopped on a full page that crossed the
\* boundary, with documents left after the cursor.
C4_Witness ==
    /\ ev.kind = "initialDone"
    /\ hasMoreTxns
    /\ Query(remote, lastTxnDoc, 1) # <<>>
    /\ allTransactions # <<>>


\* t is the calendar month immediately before m: December of the year
\* before when m is a January.
MonthBefore(t, m) ==
    \/ m % 100 = 1 /\ t = (m \div 100 - 1) * 100 + 12
    \/ m % 100 > 1 /\ t = m - 1

\* The documents after cursor c up to and including document d, in the
\* order of the query.
Fetched(c, d) == Ordered({x \in remote : Before(c, x) /\ (x = d \/ Before(x, d))})

PageEnds(n) == {k \in 1..n : k % TRANSACTIONS_PER_PAGE = 0}

\* C6: fetchMoreTransactions targets the calendar month immediately before
\* the oldest month loaded when it is called (December of the year before for
\* a January); it pages from the cursor, appends to allTransactions exactly
\* the fetched records of the target month, and stops at the first page whose
\* last record is older than the target or that comes back short.
C6_FetchMoreTargetsPreviousMonth ==
    [][/\ (ev'.kind = "moreStart" /\ fetch'.kind = "more") =>
            /\ MonthBefore(fetch'.target, OldestLoadedMonth(allTransactions))
            /\ fetch'.lastDoc = lastTxnDoc
       /\ ev'.kind = "moreDone" =>
            LET F == Fetched(fetch.cursor, lastTxnDoc')
                IsTarget(x) == getYearMonthLocal(x) = fetch.target
            IN  /\ allTransactions' = allTransactions \o ev'.recs
                /\ ev'.recs = SelectSeq(F, IsTarget)
                /\ \A k \in PageEnds(Len(F)) \ {Len(F)} :
                        getYearMonthLocal(F[k]) >= fetch.target
                /\ \/ getYearMonthLocal(lastTxnDoc') < fetch.target
                   \/ Query(remote, lastTxnDoc', 1) = <<>>]_vars

\* C6 witness: a fetch of one more month appended December records, the
\* month before the January that was the oldest loaded.
C6_Witness ==
    /\ ev.kind = "moreDone"
    /\ ev.recs # <<>>
    /\ \A i \in 1..Len(ev.recs) : ev.recs[i].ym % 100 = 12


AllHeld == \A d \in remote : d \in Range(allTransactions)
HeldOnce(d) == Cardinality({i \in 1..Len(allTransactions) : allTransactions[i] = d}) = 1
FetchCompleted == ev.kind \in {"initialDone", "moreDone", "allDone"}

\* C5: after any sequence of completed fetchInitialTransactions,
\* fetchMoreTransactions and fetchAllTransactions calls against an unchanging
\* remote collection, hasMoreTxns = FALSE implies that every remote record
\* is held in allTransactions.
C5_NoMoreMeansAllLoaded ==
    (FetchCompleted /\ ~hasMoreTxns) => AllHeld

\* C7: after fetchInitialTransactions on an unchanging remote collection,
\* invoking fetchMoreTransactions while hasMoreTxns ends, once hasMoreTxns is
\* FALSE, with every remote record held in allTransactions.
C7_MonthByMonthLoadsAll ==
    (ev.kind = "moreDone" /\ ~usedAll /\ ~hasMoreTxns) => AllHeld

\* C8: after fetchInitialTransactions followed by fetchAllTransactions against
\* an unchanging remote collection, allTransactions holds every remote record
\* exactly once and hasMoreTxns = FALSE.
C8_FetchAllLoadsEverythingOnce ==
    ev.kind = "allDone" =>
        /\ ~hasMoreTxns
        /\ \A d \in remote : HeldOnce(d)

\* C9: applying a fetch result is idempotent: applying the live snapshot
\* just merged, or the backfill result just appended by fetchMoreTransactions
\* or fetchAllTransactions, a second time leaves allTransactions as it is.
C9_ApplyingTwiceIsIdempotent ==
    /\ ev.kind = "snapshot" => MergeLive(allTransactions, ev.recs) = allTransactions
    /\ ev.kind \in {"moreDone", "allDone"} =>
            AppendBackfill(allTransactions, ev.recs) = allTransactions


\* Every delivery and every fetch completion has been applied: the live
\* listener is attached with nothing to deliver and no fetch is in flight.
Quiescent == page = "reports" /\ ~snapPending /\ fetch.kind = "none"

\* C2: for every interleaving of live snapshot deliveries with the
\* completions of in-flight fetches, once all of them have been applied
\* allTransactions holds the records of the latest snapshot for the live
\* window and every backfilled record of an older month.
C2_SourcesDoNotRevertEachOther ==
    Quiescent =>
        /\ \A i \in 1..Len(lastSnap) : lastSnap[i] \in Range(allTransactions)
        /\ \A r \in backfilled : OlderThanWindow(r) => r \in Range(allTransactions)

\* C10: after a successful add, edit or delete, once the subscription feed
\* has delivered its snapshot and nothing else is in flight, every record held in allTransactions is a record of the
\* remote collection with its current values: an edited record shows its new
\* values and a deleted record is no longer held.
C10_FeedReflectsWrites ==
    (Quiescent /\ ev.kind = "snapshot" /\ writes > 0) => \A i \in 1..Len(allTransactions) : allTransactions[i] \in remote


\* The lookup that a step of manageRateCache after its awaits belongs to.
Answered == rateCalls \ rateCalls'

\* C11: for the manageRateCache invocations of one calendar day: a lookup
\* that succeeds stores the table under that day's date; every invocation
\* that starts on a day for which the table is stored takes the stored table
\* and asks nothing of the rate service; and the rate service is fetched
\* successfully at most once for a calendar day.
C11_RatesFetchedOncePerDay ==
    /\ [][ev'.kind = "ratesFetched" =>
            \A c \in Answered :
                /\ exchangeRatesCache'.date = c.today
                /\ exchangeRatesCache'.rates \in RateTables]_vars
    /\ [][(ev'.kind = "mount" /\ RateHit(exchangeRatesCache, today)) =>
            /\ rateCalls' = rateCalls
            /\ latestRates' = exchangeRatesCache.rates]_vars
    /\ [](\A d \in Days : rateLog[d] <= 1)

\* C12: when the rate lookup of the mounted component fails: if the lookup
\* found a cached table, of whatever date, latestRates is set to that table
\* and an error notice is raised; if it found none, latestRates stays unset
\* and the error notice is raised; either way the stored cache is left as it
\* is and the component stays mounted on its page.
C12_FailedLookupReusesStaleCache ==
    [][ev'.kind = "ratesFailed" =>
        \A c \in Answered :
            /\ exchangeRatesCache' = exchangeRatesCache
            /\ instance' = instance
            /\ page' = page
            /\ c.inst = instance =>
                /\ toast'.type = "error"
                /\ toast'.message # ""
                /\ IF c.cachedData # NoCache
                   THEN latestRates' = c.cachedData.rates
                   ELSE latestRates' = NoRates]_vars

\* C12 witness: the lookup of the mounted component failed on the day after
\* the cached table's day, and the component runs on the stale table.
C12_Witness ==
    /\ ev.kind = "ratesFailed"
    /\ toast.type = "error"
    /\ exchangeRatesCache # NoCache
    /\ exchangeRatesCache.date < today
    /\ latestRates = exchangeRatesCache.rates

\* ------------------------------------------------------------------ C13
BlockedKinds == {"addBlocked", "editBlocked", "postBlocked"}
SubmitKinds == BlockedKinds \cup {"add", "addFailed", "edit", "editFailed",
                                  "post", "postNothing", "postFailed"}

\* C13: while the rates are unset, a step of addTransaction,
\* updateTransaction or handlePostRecurring is a blocked one: the remote
\* collection is as it was, and of the client state nothing but the notice
\* changes, which is an error notice.
C13_WritesBlockedWhileRatesUnset ==
    [][(latestRates = NoRates /\ ev'.kind \in SubmitKinds) =>
            /\ ev'.kind \in BlockedKinds
            /\ remote' = remote /\ usedIds' = usedIds
            /\ toast'.type = "error"
            /\ UNCHANGED <<page, allTransactions, lastTxnDoc, hasMoreTxns, loadingTxns,
                           fetch, snapPending, lastSnap, backfilled, usedAll>>
            /\ UNCHANGED <<rateVars, ledgerVars, reportVars>>]_vars

\* An edit of an imported transaction was submitted before the rates came.
C13_Witness ==
    /\ ev.kind = "editBlocked"
    /\ latestRates = NoRates
    /\ editingTransaction \in remote
    /\ toast.type = "error"

\* ------------------------------------------------------------------ C14
\* The transactions the list shows, page after page.
Listed ==
    filteredTransactions(allTransactions, selectedMonths, selectedCategories,
                         descriptionFilter, sortConfig, displayCurrency, latestRates)

TableHas(rates, currency) ==
    rates # NoRates /\ currency \in DOMAIN rates /\ rates[currency] # 0

\* A transaction written by addTransaction, updateTransaction or
\* handlePostRecurring records the rate the table holds for its currency.
WritesUseTableRate ==
    [][ev'.kind \in {"add", "edit", "post"} =>
            \A d \in remote' \ remote :
                /\ TableHas(latestRates, d.originalCurrency)
                /\ d.exchangeRateToBase = Whole(latestRates[d.originalCurrency])]_vars

\* A listed transaction of another currency than the display currency is
\* shown, and sorted by amount, with the factor the table holds for the
\* display currency.
ListUsesTableRate ==
    page = "reports" =>
        \A i \in 1..Len(Listed) :
            LET t == Listed[i]
            IN  t.originalCurrency # displayCurrency =>
                    /\ TableHas(latestRates, displayCurrency)
                    /\ displayAmount(t, displayCurrency, latestRates) =
                            Times(t.amountInBaseCurrency, Whole(latestRates[displayCurrency]))
                    /\ SortValue(t, "amountInBaseCurrency", displayCurrency, latestRates) =
                            Times(t.amountInBaseCurrency, Whole(latestRates[displayCurrency]))

\* C14: a rate of 1 never stands in for a rate that is unset or missing: a
\* written transaction records the table's rate of its currency, and the
\* listed amount and the amount sort key of a transaction that needs
\* conversion use the table's rate of the display currency.
C14_NoFallbackRate == WritesUseTableRate /\ []ListUsesTableRate

\* ------------------------------------------------------------------ C15
WriteKinds == {"add", "edit", "post", "import"}

\* C15: every transaction a handler writes (add, edit, post recurring, CSV
\* import) records as amountInBaseCurrency its originalAmount divided by the
\* exchangeRateToBase of the same document.
C15_BaseAmountIsAmountOverRate ==
    [][ev'.kind \in WriteKinds =>
            \A d \in remote' \ remote :
                d.amountInBaseCurrency = Quot(d.originalAmount, d.exchangeRateToBase)]_vars

\* An imported transaction of 8 forint, edited under the table of the day
\* (4 forint to the dollar).
C15_Witness ==
    /\ ev.kind = "edit"
    /\ \E d \in remote :
            /\ d.originalCurrency = "HUF"
            /\ d.originalAmount = Whole(8)
            /\ d.exchangeRateToBase = Whole(4)
            /\ d.amountInBaseCurrency = Whole(2)

\* ------------------------------------------------------------------ C16
SamePair(d, e) ==
    /\ d.exchangeRateToBase = e.exchangeRateToBase
    /\ d.amountInBaseCurrency = e.amountInBaseCurrency

\* C16: the exchangeRateToBase and the amountInBaseCurrency of a stored
\* transaction change in no step but one of updateTransaction on that
\* transaction, and then to the rate the current table holds for its
\* currency and to the amount divided by it; the answer of the rate
\* service, a snapshot, a backfill, a change of the display currency and the
\* rebuilding of the usage counters leave both as they are.
C16_RatePairChangesOnlyByEdit ==
    [][\A d \in remote, e \in remote' :
            (d.id = e.id /\ ~SamePair(d, e)) =>
                /\ ev'.kind = "edit"
                /\ editingTransaction.id = d.id
                /\ TableHas(latestRates, e.originalCurrency)
                /\ e.exchangeRateToBase = Whole(latestRates[e.originalCurrency])
                /\ e.amountInBaseCurrency =
                        Quot(e.originalAmount, e.exchangeRateToBase)]_vars

\* An imported forint transaction was loaded with the month before the
\* window and edited into a dollar transaction: its rate is the table's 1.
C16_Witness ==
    /\ ev.kind = "edit"
    /\ backfilled # {}
    /\ \E d \in remote :
            /\ d.originalCurrency = "USD"
            /\ d.exchangeRateToBase = Whole(1)
            /\ d.amountInBaseCurrency = d.originalAmount
            /\ d.ym < PrevYM

\* ------------------------------------------------------------------ C17
\* The amount of a transaction in the display currency, as the claim has it.
Converted(t) ==
    IF t.originalCurrency = displayCurrency THEN t.originalAmount
    ELSE Times(t.amountInBaseCurrency, Whole(latestRates[displayCurrency]))

ConvertedSum(txns) == Sum([i \in 1..Len(txns) |-> Converted(txns[i])])

\* C17: with the rates set, every output of the reports uses for a
\* transaction of the display currency its originalAmount, and for any
\* other its amountInBaseCurrency times the table's rate of the display
\* currency: the two totals, the expenses by category, the months of the
\* trend, the listed amount and the amount sort key.
C17_SameCurrencyUsesOriginalAmount ==
    (page = "reports" /\ TableHas(latestRates, displayCurrency)) =>
        LET data == reportData(Listed, displayCurrency, latestRates)
            IsExpense(t) == t.type = "Expense"
            IsIncome(t) == t.type = "Income"
            expenses == SelectSeq(Listed, IsExpense)
            income == SelectSeq(Listed, IsIncome)
            Of(txns, category) == LET Is(t) == t.category = category IN SelectSeq(txns, Is)
            In(txns, month) == LET Is(t) == getYearMonthLocal(t) = month IN SelectSeq(txns, Is)
        IN  /\ data.totalExpense = ConvertedSum(expenses)
            /\ data.totalIncome = ConvertedSum(income)
            /\ \A c \in DOMAIN data.expenseByCategory :
                    data.expenseByCategory[c] = ConvertedSum(Of(expenses, c))
            /\ \A m \in DOMAIN data.monthlyData :
                    /\ data.monthlyData[m].expense = ConvertedSum(In(expenses, m))
                    /\ data.monthlyData[m].income = ConvertedSum(In(income, m))
            /\ \A i \in 1..Len(Listed) :
                    /\ displayAmount(Listed[i], displayCurrency, latestRates) =
                            Converted(Listed[i])
                    /\ SortValue(Listed[i], "amountInBaseCurrency", displayCurrency,
                                 latestRates) = Converted(Listed[i])

\* ------------------------------------------------------------------ C18
SameLetter(a, b) == toLowerCase(<<a>>) = toLowerCase(<<b>>)

\* The text occurs in the description, letter case aside.
Occurs(text, description) ==
    \E k \in 0..Len(description) :
        /\ k + Len(text) <= Len(description)
        /\ \A j \in 1..Len(text) : SameLetter(description[k + j], text[j])

Passes(t) ==
    /\ (selectedMonths = {} \/ getYearMonthLocal(t) \in selectedMonths)
    /\ (selectedCategories = {} \/ t.category \in selectedCategories)
    /\ (descriptionFilter = <<>> \/ Occurs(descriptionFilter, t.description))

\* C18: the filtered list holds a held transaction iff its month is
\* selected or no month is, its category is selected or none is, and the
\* search text is empty or occurs in its description whatever the case of
\* the letters; it holds each such transaction once, and all held
\* transactions when the three filters are empty.
C18_FilterKeepsExactlyMatching ==
    /\ \A t \in Range(allTransactions) : t \in Range(Listed) <=> Passes(t)
    /\ Len(Listed) = Cardinality({i \in 1..Len(allTransactions) : Passes(allTransactions[i])})
    /\ (selectedMonths = {} /\ selectedCategories = {} /\ descriptionFilter = <<>>) =>
            Len(Listed) = Len(allTransactions)

\* The three filters are set, and the search text "ab" has kept a
\* description "Ab" and no other.
C18_Witness ==
    /\ selectedMonths # {}
    /\ selectedCategories # {}
    /\ descriptionFilter = <<"a", "b">>
    /\ Len(Listed) = 1
    /\ Listed[1].description = <<"A", "b">>
    /\ Len(allTransactions) > 1

\* ------------------------------------------------------------------ C19
\* A transaction of the current month with that description is among txns.
PostedIn(txns, description) ==
    \E e \in txns : getYearMonthLocal(e) = NowYM /\ e.description = description

\* C19: a step of handlePostRecurring creates transactions of the current
\* month only, one for a recurring item only if the collection has no
\* transaction of the current month with the item's description, and the
\* count it reports is the number of transactions it created.
C19_PostSkipsAlreadyPosted ==
    [][ev'.kind \in {"post", "postNothing"} =>
            /\ \A d \in remote' \ remote :
                    /\ getYearMonthLocal(d) = NowYM
                    /\ \E j \in 1..Len(recurringItems) :
                            recurringItems[j].description = d.description
                    /\ ~PostedIn(remote, d.description)
            /\ toast'.n = Cardinality(remote' \ remote)]_vars

\* ------------------------------------------------------------------ C20
OneMore(usage, type, category) == [usage EXCEPT ![<<type, category>>] = @ + 1]

\* C20: a successful addTransaction raises by one the counter of the type
\* and category of the transaction it created, a successful
\* updateTransaction that of the type and category the edited transaction
\* now has, and both leave the other counters as they are; an add or edit
\* that is blocked or fails leaves every counter as it is.
C20_UsageCountsAddsAndEdits ==
    [][/\ ev'.kind = "add" =>
            \E d \in remote' \ remote :
                categoryUsage' = OneMore(categoryUsage, d.type, d.category)
       /\ ev'.kind = "edit" =>
            \E d \in remote' :
                /\ d.id = editingTransaction.id
                /\ categoryUsage' = OneMore(categoryUsage, d.type, d.category)
       /\ ev'.kind \in {"addBlocked", "addFailed", "editBlocked", "editFailed"} =>
            categoryUsage' = categoryUsage]_vars

\* A transaction was loaded, which set the counter of its category to 1,
\* and edited: the counter stands at 2, the others at 0.
C20_Witness ==
    /\ ev.kind = "edit"
    /\ \E d \in remote :
            /\ d.id = 1
            /\ categoryUsage[<<d.type, d.category>>] = 2
            /\ \A k \in UsageKeys : k # <<d.type, d.category>> => categoryUsage[k] = 0

\* ------------------------------------------------------------------ C21
BaseOf(type) == IF type = "Expense" THEN ExpenseCategoryList ELSE IncomeCategoryList
BasePlace(type, c) == CHOOSE k \in 1..Len(BaseOf(type)) : BaseOf(type)[k] = c

\* a stands before b in the ranking: its count is higher, or the counts are
\* equal and a stands before b in the fixed list.
Outranks(type, a, b) ==
    \/ CountOf(categoryUsage, type, a) > CountOf(categoryUsage, type, b)
    \/ /\ CountOf(categoryUsage, type, a) = CountOf(categoryUsage, type, b)
       /\ BasePlace(type, a) < BasePlace(type, b)

\* C21: the category options of a type are the type's fixed list in another
\* order, each name once: the first five are the five that outrank all
\* others by count (ties in the order of the fixed list), in that ranking;
\* the remaining ones follow in alphabetical order.
C21_CategoryOrdering ==
    ev.kind = "sortedCategories" =>
        LET type == ev.stop
            out == ev.recs
            top == Min(5, Len(out))
        IN  /\ Len(out) = Len(BaseOf(type))
            /\ Range(out) = Range(BaseOf(type))
            /\ \A i, j \in 1..Len(out) :
                    (i < j /\ i <= top) => Outranks(type, out[i], out[j])
            /\ \A i, j \in 1..Len(out) :
                    (top < i /\ i < j) => NameRank(out[i]) < NameRank(out[j])

\* The expense options with the first of the fixed list not among the first
\* five, and the two that remain in alphabetical order.
C21_Witness ==
    /\ ev.kind = "sortedCategories"
    /\ ev.stop = "Expense"
    /\ ev.recs[1] = "Travel"
    /\ ev.recs[6] = "Bills"
    /\ ev.recs[7] = "Groceries"

\* ------------------------------------------------------------------- C22
\* The steps in which a remote store call or the rate lookup failed.
FailedKinds == {"addFailed", "editFailed", "deleteFailed", "postFailed",
                "fetchFailed", "ratesFailed"}

\* The notices the handlers raise on a failure.
FailureMessages == {"Failed to add transaction", "Update failed", "Failed to delete",
                    "Failed to add recurring items", "Could not update daily rates"}

\* The toast shown after a failed step is an error notice about that step.
Noticed(kind, shown) ==
    /\ shown # NoToast
    /\ shown.type = "error"
    /\ CASE kind = "addFailed" -> shown.message = "Failed to add transaction"
         [] kind = "editFailed" -> shown.message = "Update failed"
         [] kind = "deleteFailed" -> shown.message = "Failed to delete"
         [] kind = "postFailed" -> shown.message = "Failed to add recurring items"
         [] kind = "ratesFailed" -> shown.message = "Could not update daily rates"
         [] OTHER -> shown.message \notin FailureMessages \ {"Could not update daily rates"}

\* C22: a step in which a store call (add, edit, delete, post recurring, page
\* fetch) or the rate lookup failed raises an error notice and leaves
\* allTransactions, the cursor, hasMoreTxns, the usage counters and the
\* rates as they were before the operation.
C22_FailureKeepsStateAndNotifies ==
    [][ev'.kind \in FailedKinds =>
            /\ Noticed(ev'.kind, toast')
            /\ UNCHANGED <<allTransactions, lastTxnDoc, hasMoreTxns, categoryUsage,
                           latestRates>>]_vars

\* The part of C22 about the handlers: a failed add, edit, delete or post
\* raises its notice and changes none of those.
C22_HandlerFailuresKeepState ==
    [][ev'.kind \in FailedKinds \ {"fetchFailed", "ratesFailed"} =>
            /\ Noticed(ev'.kind, toast')
            /\ UNCHANGED <<allTransactions, lastTxnDoc, hasMoreTxns, categoryUsage,
                           latestRates>>]_vars

\* The part of C22 about page fetches, without the notice: a failed fetch
\* changes none of the loader's state and ends with nothing loading, or with
\* the initial fetch started again by the trigger effect.
C22_FetchFailureKeepsState ==
    [][ev'.kind = "fetchFailed" =>
            /\ UNCHANGED <<allTransactions, lastTxnDoc, hasMoreTxns, categoryUsage,
                           latestRates>>
            /\ fetch' \in {NoFetch, NewInitial}]_vars

\* The part of C22 about the notice of a failed page fetch.
C22_FetchFailureNotifies ==
    [][ev'.kind = "fetchFailed" => Noticed(ev'.kind, toast')]_vars

\* ------------------------------------------------------------------- C23
FilterKinds == {"months", "categories", "description"}

\* C23: a step that changes a filter (the selected months, the selected
\* categories or the description filter) leaves the list on page 1,
\* whichever page it stood on.
C23_FilterChangeResetsPage ==
    [][ev'.kind \in FilterKinds => currentPage' = 1]_vars

\* The description filter was changed with the list on its second page.
C23_Witness == ev.kind = "description" /\ ev.stop = "later" /\ currentPage = 1

\* ------------------------------------------------------------------- C29
\* C29: the page shown is one of the pages of the filtered list:
\* 1 <= currentPage <= max(1, totalPages).
C29_PageWithinBounds ==
    /\ 1 <= currentPage
    /\ currentPage <= (IF totalPages > 1 THEN totalPages ELSE 1)

\* The part of C29 about the page buttons and the filters: a step of those
\* ends on a page of the list.
C29_ControlsKeepPageWithinBounds ==
    [][ev'.kind \in FilterKinds \cup {"nextPage", "prevPage"} => C29_PageWithinBounds']_vars

\* ------------------------------------------------------------------- C24
Reversed(s) == [k \in 1..Len(s) |-> s[Len(s) + 1 - k]]

\* The list is sorted by amount, ascending, and the amount header is
\* clicked: the next sort is by amount, descending, of the same filtered set.
AmountTurnsDescending ==
    /\ ev'.kind = "sort"
    /\ sortConfig = [key |-> "amountInBaseCurrency", direction |-> "asc"]
    /\ sortConfig' = [key |-> "amountInBaseCurrency", direction |-> "desc"]

\* C24: the list sorted by amount descending is the list sorted by amount
\* ascending in reversed order, for every filtered set.
C24_DescendingIsReversedAscending ==
    [][AmountTurnsDescending => Listed' = Reversed(Listed)]_vars

\* The part of C24 without ties: when no two listed transactions have the
\* same converted amount, the descending list is the reversed ascending one.
C24_ReversedWithoutTies ==
    [][(/\ AmountTurnsDescending
        /\ \A i, j \in 1..Len(Listed) :
                i # j => displayAmount(Listed[i], displayCurrency, latestRates)
                            # displayAmount(Listed[j], displayCurrency, latestRates))
            => Listed' = Reversed(Listed)]_vars

\* ------------------------------------------------------------------- C25
\* C25: allTransactions never holds two records with the same id.
C25_NoTwoRecordsWithSameId ==
    \A i, j \in 1..Len(allTransactions) :
        allTransactions[i].id = allTransactions[j].id => i = j

\* ------------------------------------------------------------------- C26
\* The remote collection has no record in the live window.
WindowEmpty == \A d \in remote : ~InWindow(d)

\* C26: when the remote collection has no record in the live window and the
\* user does nothing after entering the reports page, from some point on no
\* fetch is in flight (and so none is started again).
C26_InitialLoadsEnd ==
    WindowEmpty => <>[](fetch.kind = "none" /\ ~loadingTxns)

\* The part of C26 that holds: when the live window has a record, the
\* initial loads end.
C26_LoadsEndWhenWindowHasRecords ==
    ~WindowEmpty => <>[](fetch.kind = "none" /\ ~loadingTxns)

\* The step behind C26: an initial fetch that ended with nothing to hold is
\* not followed by another one.
C26_EmptyLoadIsNotRepeated ==
    [][ev'.kind = "initialDone" /\ Len(allTransactions') = 0 => fetch'.kind = "none"]_vars

\* ------------------------------------------------------------------- C27
\* C27: handlePostRecurring run twice with no step in between creates, the
\* second time, no transaction for a recurring item that the collection
\* already has a transaction of the current month for.
C27_SecondPostCreatesNothingTwice ==
    [][(ev.kind = "post" /\ ev'.kind = "post") =>
            \A d \in remote' \ remote : ~PostedIn(remote, d.description)]_vars

\* ------------------------------------------------------------------- C28
ImportKinds == {"import", "importNothing", "importLost"}

\* C28: when handleImport has ended, the number of transactions it wrote to
\* the collection is the imported count it reports.
C28_ImportedCountIsWritten ==
    [][ev'.kind \in ImportKinds => Cardinality(remote' \ remote) = toast'.n]_vars

\* The part of C28 that holds: whenever the count is not a multiple of the
\* batch size, every counted row was written.
C28_WrittenWhenCountOffBatch ==
    [][(ev'.kind \in ImportKinds /\ toast'.n % IMPORT_BATCH # 0)
            => Cardinality(remote' \ remote) = toast'.n]_vars

\* ------------------------------------------------------------------- C30
DigitValue(c) == CHOOSE k \in 0..9 : Digits[k + 1] = c

\* The text is YYYY-MM-DD and reads as the date.
ReadsAs(text, date) ==
    /\ Len(text) = 10
    /\ text[5] = "-"
    /\ text[8] = "-"
    /\ \A k \in {1, 2, 3, 4, 6, 7, 9, 10} : \E n \in 0..9 : Digits[n + 1] = text[k]
    /\ DigitValue(text[1]) * 1000 + DigitValue(text[2]) * 100
            + DigitValue(text[3]) * 10 + DigitValue(text[4]) = date.yyyy
    /\ DigitValue(text[6]) * 10 + DigitValue(text[7]) = date.mm
    /\ DigitValue(text[9]) * 10 + DigitValue(text[10]) = date.dd

\* C30: a run of migrateTransactionDates turns the transactionDate of every
\* document that holds a Timestamp into the YYYY-MM-DD string of its date
\* and leaves the rest of that document alone; every other document stays
\* as it is; the count is the number of Timestamp documents; and a run that
\* follows a run updates nothing.
C30_MigrationRewritesTimestampsOnce ==
    [][ev'.kind = "migrate" =>
        /\ \A d \in remote :
            IF d.transactionDate.kind = "timestamp"
            THEN \E e \in remote' :
                    /\ e.id = d.id
                    /\ e.v = d.v
                    /\ e.transactionDate.kind = "string"
                    /\ ReadsAs(e.transactionDate.text, LocalDate(d.transactionDate))
            ELSE d \in remote'
        /\ Cardinality(remote') = Cardinality(remote)
        /\ Len(ev'.recs) = Cardinality({d \in remote : d.transactionDate.kind = "timestamp"})
        /\ (ev.kind = "migrate" => Len(ev'.recs) = 0 /\ remote' = remote)]_vars

\* A second run updated nothing, on a collection in which the first run had
\* turned a Timestamp late on 31 January (UTC) into the string of the local
\* date, next to a document that was never a Timestamp.
C30_Witness ==
    /\ ev.kind = "migrate"
    /\ writes = 2
    /\ Len(ev.recs) = 0
    /\ \E d \in remote :
            d.transactionDate.text = <<"2", "0", "2", "4", "-", "0", "2", "-", "0", "1">>
    /\ \E d \in remote : d.transactionDate.text = <<"9", "/", "1">>

====
